---- MODULE Spec2Model ----
(***************************************************************************)
(* The chat session fabric of CherryRecorder-Server: the ChatServer        *)
(* registry (sessions_, nicknames_, rooms_) behind its strand, the three   *)
(* session transports (ChatSession = "tcp", WebSocketSession = "ws",       *)
(* WebSocketSSLSession = "wss") and the per-session write queue.           *)
(*                                                                         *)
(* Executors.  The io_context is run by a pool of threads, so the server   *)
(* strand and every session's strand advance independently.  A strand is   *)
(* a FIFO of posted tasks: strandQ for ChatServer::strand_, sessQ[s] for   *)
(* a session's strand_.  A session's strand is built on the executor of    *)
(* its own socket (itself a strand), so read/write completions and posted  *)
(* tasks of one session never overlap: every session handler is one        *)
(* atomic action.  net::dispatch from another executor is modelled as an   *)
(* enqueue; running the task at once is the interleaving in which the      *)
(* queue's next step follows immediately.                                  *)
(*                                                                         *)
(* Specifications.  Spec covers the registry: accept, the /nick, /join,     *)
(* /leave and /quit commands, disconnects and ChatServer::stop.  WSpec     *)
(* covers the write path: deliver, the write completions with their       *)
(* errors, and the ways a session stops.  The lines a handler sends are    *)
(* not tracked one by one: Deliver stands for any task calling deliver.    *)
(* NSpec covers the nickname index with its readers (the user listing and  *)
(* the lookup of a private message), BSpec the chat lines and their        *)
(* fan-out to a room or to everyone, LSpec the order in which the          *)
(* operations take the mutexes.  QSpec is the end of a session under weak  *)
(* fairness of the strands (a posted task is run eventually), CapSpec the  *)
(* deliveries to sessions whose queues are around the cap.  RoomSpec is    *)
(* the room commands of sessions that start in their rooms.  StopSpec is   *)
(* the shutdown with a /nick call taken in its two steps, the test of      *)
(* stopped_ and the dispatch (nickCall holds the call in between).         *)
(* DrainSpec is the write path under weak fairness of the session strands  *)
(* and of the write completions.                                           *)
(*                                                                         *)
(* Outside the registry.  ListenSpec is the accept loops of the three      *)
(* listeners, the error code of a completion being their input.            *)
(* ProxySpec is the Places endpoint: one blocking upstream call at a time, *)
(* with the outcome of each network step as its input.                     *)
(*                                                                         *)
(* Fan-outs.  sent is the set of fan-outs the last handler emitted: the    *)
(* notice or chat line, the room, the sender and the sessions deliver was  *)
(* called on.  A broadcast_to_room call runs on the session's own thread   *)
(* in three steps (lookup, copy, deliver), recorded in bcast.              *)
(*                                                                         *)
(* Lines.  said is the set of texts the last handler whose text is tracked *)
(* (accept, a room chat line, the reply of a private message) handed to    *)
(* deliver, per receiver and in order.  A line is a format with its        *)
(* arguments; the text of the client is <text>, and texts that are not     *)
(* ASCII in the source are given as a gloss in braces.                     *)
(*                                                                         *)
(* Encoding.  Sessions, user nicknames and room names are small positive   *)
(* integers.  The default nickname of session s, its remote_id, is the     *)
(* negative integer Rid(s); the empty room name "" is NoRoom.              *)
(***************************************************************************)
EXTENDS Integers, Sequences, FiniteSets, TLC

\* ---------------------------------------------------------------- bounds
NumSessions == 2      \* connections the listeners accept
NumNicks == 3         \* distinct nicknames clients ask for
NumRooms == 2         \* distinct room names clients ask for
MaxStrand == 2        \* tasks waiting on ChatServer::strand_
MaxSessQ == 2         \* tasks waiting on one session's strand_
MaxCmds == 3          \* frames the clients send in total
MaxMsgs == 3          \* deliver() calls made in total
MaxAccepts == 3       \* accept completions one listener handles
MaxRequests == 2      \* requests the Places endpoint serves
NumEndNicks == 1      \* distinct nicknames asked for in QSpec and StopSpec
NumPmNicks == 1       \* distinct receivers named by /pm

Sessions == 1..NumSessions
Nicks == 1..NumNicks
Rooms == 1..NumRooms
Kinds == {"tcp", "ws", "wss"}
NoRoom == 0
Rid(s) == 0 - s

VARIABLES
    kind,           \* transport of each connection, "none" before accept
    reading,        \* an async read of the session is outstanding
    sstopped,       \* ChatSession::stopped_
    sock_open,      \* the socket / websocket stream has not been closed
    nickname,       \* nickname_ of each session
    current_room,   \* current_room_ of each session
    cmds,           \* frames the clients have sent so far
    sessQ,          \* tasks posted to each session's strand_
    wsLeave,        \* a ws session is between leave_room's return and its reply
    sessions_,      \* ChatServer::sessions_
    nicknames_,     \* ChatServer::nicknames_ (std::map: a function on the keys present)
    rooms_,         \* ChatServer::rooms_ (std::map: room name -> ChatRoom::sessions_)
    stopped_,       \* ChatServer::stopped_
    stopPhase,      \* progress of ChatServer::stop()
    strandQ,        \* tasks posted to ChatServer::strand_
    crashed,        \* the process has faulted (an outcome of undefined behaviour)
    write_msgs_,    \* write queue of each session
    writing,        \* writing_flag_ / is_writing_
    inflight,       \* messages whose async_write is outstanding on the socket
    wfailed,        \* a write on the still open socket has completed with an error
    wire,           \* messages fully written to the socket, oldest first
    msgs,           \* deliver() calls made so far
    stopCalls,      \* history: effective runs of stop_session per session
    leaveCalls,     \* history: calls of ChatServer::leave made by stop_session
    closeCalls,     \* history: closes of the socket per session
    mutCtx,         \* history: executor of the last step that changed the registry
    sent,           \* history: fan-outs made by the last handler that can broadcast
    bcast,          \* broadcast_to_room call in progress of each session
    iocQ,           \* reply handlers posted to the io_context, in no order
    owner,          \* threads holding each mutex, {} when free
    prog,           \* lock steps each thread has left in its current operation
    said,           \* history: lines the last handler whose text is tracked gave to deliver
    nickCall,       \* nickname of the /nick call of each session that has passed its test of stopped_, 0 for none
    acceptor_open,  \* acceptor_.is_open() of each listener
    accepting,      \* an async_accept of the listener is outstanding
    accepts,        \* accept completions each listener has handled so far
    phase,          \* where the Places request in progress stands
    retry_count,    \* retry_count of requestGooglePlacesApi
    last_error,     \* last_error of requestGooglePlacesApi, 0 for none
    tried,          \* history: error code of each connect attempt of the request
    waits,          \* history: milliseconds slept before each retry of the request
    upstream,       \* the response read from the upstream, NoMessage before
    fault,          \* history: the transport step that failed, "none" if none did
    response,       \* the response given to the client, NoMessage before
    requests        \* Places requests started so far

sessVars == <<kind, reading, sstopped, sock_open, nickname, current_room, cmds, sessQ, wsLeave>>
regVars == <<sessions_, nicknames_, rooms_, stopped_, stopPhase, strandQ, crashed>>
writeVars == <<write_msgs_, writing, inflight, wfailed, wire, msgs>>
histVars == <<stopCalls, leaveCalls, closeCalls, mutCtx>>
castVars == <<sent, bcast, iocQ>>
lockVars == <<owner, prog>>
lineVars == <<said>>
listenVars == <<acceptor_open, accepting, accepts>>
proxyVars == <<phase, retry_count, last_error, tried, waits, upstream, fault, response, requests>>
extVars == <<nickCall, listenVars, proxyVars>>
chatVars == <<sessVars, regVars, writeVars, histVars, castVars, lockVars, lineVars, nickCall>>
vars == <<sessVars, regVars, writeVars, histVars, castVars, lockVars, lineVars, extVars>>

\* A posted task: op names the handler, s its session, a its argument.  The
\* tasks of a private message also carry the sender's nickname as read at
\* the call (from) and the receiver's nickname (to).
PmTask(op, s, a, from, to) == [op |-> op, s |-> s, a |-> a, from |-> from, to |-> to]
Task(op, s, a) == PmTask(op, s, a, 0, 0)

\* ------------------------------------------------------------ std::map
EmptyMap == [x \in {} |-> 0]
MapPut(m, k, v) == [x \in (DOMAIN m) \cup {k} |-> IF x = k THEN v ELSE m[x]]
MapErase(m, k) == [x \in (DOMAIN m) \ {k} |-> m[x]]

\* ----------------------------------------------- shared_ptr / weak_ptr
\* A queued task keeps its session alive when its closure holds a shared_ptr:
\* join, leave, join_room and leave_room capture `session`, a broadcast and
\* a private message their sender; the nickname task holds only a weak_ptr
\* plus the result handler, which captures `self` in ChatSession and bare
\* `this` in the two websocket sessions, as the user list handlers do.  The
\* reply to a private message also holds the receiver it found.
HoldsRef(t) ==
    \/ t.op \in {"join", "leave", "join_room", "leave_room", "stop", "deliver"}
    \/ t.op \in {"entered", "renamed", "say"}
    \/ t.op \in {"find", "pm_reply"}
    \/ t.op \in {"nick", "nick_result", "users", "users_reply"} /\ kind[t.s] = "tcp"

\* The session object still exists: an outstanding read or write, the
\* registry's set, a running leave_room or broadcast_to_room call or a
\* queued closure owns it.
Alive(s) ==
    /\ kind[s] # "none"
    /\ \/ reading[s]
       \/ inflight[s] # <<>>
       \/ wsLeave[s]
       \/ bcast[s].st # "none"
       \/ s \in sessions_
       \/ \E i \in 1..Len(strandQ) : strandQ[i].s = s /\ HoldsRef(strandQ[i])
       \/ \E i \in 1..Len(sessQ[s]) : HoldsRef(sessQ[s][i])
       \/ \E t \in iocQ : HoldsRef(t) /\ (t.s = s \/ (t.op = "pm_reply" /\ t.a = s))

\* ------------------------------------------------------------ ChatRoom
\* ChatRoom::remove_participant: erase_if drops the participant and every
\* expired weak_ptr of the room.
remove_participant(members, s) == {x \in members : x # s /\ Alive(x)}

\* A leave that erases the room whoever is left in it.
RoomsAfterLeaveErase(rm, r, s) == IF r \in DOMAIN rm THEN MapErase(rm, r) ELSE rm

\* The locked part of leave_room and the old-room part of join_room: the
\* room, if found, loses s and is erased from rooms_ when it is left empty.
RoomsAfterLeave(rm, r, s) ==
    IF r \in DOMAIN rm
    THEN LET m == remove_participant(rm[r], s)
         IN IF m = {} THEN MapErase(rm, r) ELSE [rm EXCEPT ![r] = m]
    ELSE rm

\* The locked part of ChatServer::join_room: leave the old room when it is
\* another one, find or create the target, add_participant.
RoomsAfterJoin(rm, old, r, s) ==
    LET rm1 == IF old # NoRoom /\ old # r THEN RoomsAfterLeave(rm, old, s) ELSE rm
    IN IF r \in DOMAIN rm1
       THEN [rm1 EXCEPT ![r] = @ \cup {s}]
       ELSE MapPut(rm1, r, {s})

\* The session holds a nickname a client chose, not its remote id.
Named(s) == nickname[s] # Rid(s)

\* ChatRoom::broadcast: the members are copied under the room's mutex, then
\* every copy that still locks and is not the sender gets the message.
room_broadcast(members, sender) == {m \in members : Alive(m) /\ m # sender}

\* ------------------------------------------------------------- fan-outs
\* A fan-out that does not skip the sender.
broadcast_to_all(sess, sender) == sess

\* ChatServer::broadcast_impl: every session of the copy of sessions_ but
\* the sender gets the message; sender 0 is nullptr.
broadcast_impl(sess, sender) == {m \in sess : m # sender}

\* One fan-out: what was sent (op), to which room (NoRoom: to everyone),
\* on whose behalf (from, 0 for none) and the sessions it was delivered to.
Fan(op, r, from, to) == [op |-> op, r |-> r, from |-> from, to |-> to]

\* The messages ChatServer::broadcast is called with: the first-nickname
\* notice, the rename notice and a chat line.
GlobalOps == {"entered", "renamed", "say"}

\* ChatRoom::max_participants_ is declared and never set or read.  The
\* capacity the room claims speak of (default 100) is scaled to one less
\* than the sessions of the model, so that a room can fill.
max_participants_ == NumSessions - 1

\* ------------------------------------------------------------ nicknames
\* ChatServer::unregister_nickname: erases the key, whoever holds it.
unregister_nickname(nm, n) == IF n \in DOMAIN nm THEN MapErase(nm, n) ELSE nm

\* try_register_nickname_impl, first lookup: absent, expired or own entry.
can_register(nm, n, s) ==
    \/ n \notin DOMAIN nm
    \/ ~Alive(nm[n])
    \/ nm[n] = s

\* The old nickname is looked up when it is user-assigned and differs.
LooksUpOld(old, n, s) == old # n /\ old # Rid(s)

\* nicknames_ after an accepted registration of n for s whose nickname()
\* reads old.  The old entry is erased when it points to s or is expired.
NicksAfterRegister(nm, n, s, old) ==
    LET nm1 == IF n \in DOMAIN nm /\ ~Alive(nm[n]) THEN MapErase(nm, n) ELSE nm
        nm2 == IF /\ LooksUpOld(old, n, s)
                  /\ old \in DOMAIN nm1
                  /\ (nm1[old] = s \/ ~Alive(nm1[old]))
               THEN MapErase(nm1, old)
               ELSE nm1
    IN MapPut(nm2, n, s)

\* old_it = nicknames_.find(old_nick) is dereferenced without a test
\* against end(): undefined behaviour when the old nickname has no entry.
DerefsEnd(nm, n, s, old) ==
    /\ can_register(nm, n, s)
    /\ LooksUpOld(old, n, s)
    /\ old \notin DOMAIN nm

\* ------------------------------------------------- broadcast_to_room
\* A broadcast_to_room call of a session, between its steps: st is "none",
\* "found" (the room was looked up under rooms_mutex_) or "copied" (the
\* members were copied under the room's mutex); r is the room name; det
\* tells that the ChatRoom object has since left rooms_ and mem holds its
\* members; snap is the copy; seen is history, the member sets the object
\* has had since the lookup.  After the call the fields keep their last
\* values until the next call.
NoCast == [st |-> "none", r |-> NoRoom, det |-> FALSE, mem |-> {}, snap |-> {}, seen |-> {}]

\* The calls in progress after a handler has turned rooms_ from rm into rm1
\* (cleared: by rooms_.clear(), which drops rooms with their members; any
\* other erase drops a room that empty() found empty).
AfterRooms(bc, rm, rm1, cleared) ==
    [s \in Sessions |->
        IF bc[s].st = "none" \/ bc[s].det THEN bc[s]
        ELSE IF bc[s].r \in DOMAIN rm1
        THEN [bc[s] EXCEPT !.seen = @ \cup {rm1[bc[s].r]}]
        ELSE LET m == IF cleared THEN rm[bc[s].r] ELSE {}
             IN [bc[s] EXCEPT !.det = TRUE, !.mem = m, !.seen = @ \cup {m}]]

\* ---------------------------------------------------------------- locks
\* The mutexes: rooms_mutex_, nicknames_mutex_ and each ChatRoom's mutex_
\* (named by its room).  Thread 0 runs ChatServer::strand_, thread s the
\* handlers of session s.
rooms_mutex_ == 0
nicknames_mutex_ == NumRooms + 1
history_mutex == NumRooms + 2
Locks == {rooms_mutex_, nicknames_mutex_, history_mutex} \cup Rooms
Threads == {0} \cup Sessions

\* The three accept loops.
Listeners == {"ChatListener", "WebSocketListener", "EchoServer"}

\* An HTTP message: status code and body, the body a sequence of tokens.
Message(status, body) == [status |-> status, body |-> body]
NoMessage == Message(0, <<>>)

\* The listeners after their constructor and run() / start(): the acceptor
\* is open and the first async_accept is outstanding.
ListenInit ==
    /\ acceptor_open = [l \in Listeners |-> TRUE]
    /\ accepting = [l \in Listeners |-> TRUE]
    /\ accepts = [l \in Listeners |-> 0]

\* The Places handler before any request.
ProxyInit ==
    /\ phase = "idle"
    /\ retry_count = 0
    /\ last_error = 0
    /\ tried = <<>>
    /\ waits = <<>>
    /\ upstream = NoMessage
    /\ fault = "none"
    /\ response = NoMessage
    /\ requests = 0

\* The state of what lies outside the chat registry at the start.
ExtInit ==
    /\ nickCall = [s \in Sessions |-> 0]
    /\ ListenInit
    /\ ProxyInit

\* ---------------------------------------------------------------- Init
Init ==
    /\ kind = [s \in Sessions |-> "none"]
    /\ reading = [s \in Sessions |-> FALSE]
    /\ sstopped = [s \in Sessions |-> FALSE]
    /\ sock_open = [s \in Sessions |-> FALSE]
    /\ nickname = [s \in Sessions |-> Rid(s)]
    /\ current_room = [s \in Sessions |-> NoRoom]
    /\ cmds = 0
    /\ sessQ = [s \in Sessions |-> <<>>]
    /\ wsLeave = [s \in Sessions |-> FALSE]
    /\ sessions_ = {}
    /\ nicknames_ = EmptyMap
    /\ rooms_ = EmptyMap
    /\ stopped_ = FALSE
    /\ stopPhase = "running"
    /\ strandQ = <<>>
    /\ crashed = FALSE
    /\ write_msgs_ = [s \in Sessions |-> <<>>]
    /\ writing = [s \in Sessions |-> FALSE]
    /\ inflight = [s \in Sessions |-> <<>>]
    /\ wfailed = [s \in Sessions |-> FALSE]
    /\ wire = [s \in Sessions |-> <<>>]
    /\ msgs = 0
    /\ stopCalls = [s \in Sessions |-> 0]
    /\ leaveCalls = [s \in Sessions |-> 0]
    /\ closeCalls = [s \in Sessions |-> 0]
    /\ mutCtx = "none"
    /\ sent = {}
    /\ bcast = [s \in Sessions |-> NoCast]
    /\ iocQ = {}
    /\ owner = [l \in Locks |-> {}]
    /\ prog = [t \in Threads |-> <<>>]
    /\ said = {}
    /\ ExtInit

\* ------------------------------------------------------- stop_session
\* stop_session per transport.  ChatSession guards it with stopped_.exchange
\* and then, on its strand, closes the socket and calls ChatServer::leave.
\* WebSocketSession only closes the stream.  WebSocketSSLSession calls
\* ChatServer::leave and closes the stream, on every call.
StopRuns(s) == kind[s] # "tcp" \/ ~sstopped[s]
StopWithoutLeave(s) == FALSE
StopCallsLeave(s) == StopRuns(s) /\ kind[s] \in {"tcp", "wss"}
StopCloses(s) == StopRuns(s) /\ (kind[s] = "tcp" => sock_open[s])

\* ChatServer::leave(session): the nickname is read at the call, the rest
\* is dispatched to the strand.
LeaveTask(s) == Task("leave", s, nickname[s])

\* The variables stop_session writes, given the strand queue q it posts to
\* and whether the caller's read loop ends with it (rd).
StopSession(s, q, rd) ==
    /\ StopCallsLeave(s) => Len(q) < MaxStrand
    /\ sstopped' = IF kind[s] = "tcp" THEN [sstopped EXCEPT ![s] = TRUE] ELSE sstopped
    /\ sock_open' = IF StopCloses(s) THEN [sock_open EXCEPT ![s] = FALSE] ELSE sock_open
    /\ closeCalls' = IF StopCloses(s) THEN [closeCalls EXCEPT ![s] = @ + 1] ELSE closeCalls
    /\ stopCalls' = IF StopRuns(s) THEN [stopCalls EXCEPT ![s] = @ + 1] ELSE stopCalls
    /\ leaveCalls' = IF StopCallsLeave(s) THEN [leaveCalls EXCEPT ![s] = @ + 1] ELSE leaveCalls
    /\ strandQ' = IF StopCallsLeave(s) THEN Append(q, LeaveTask(s)) ELSE q
    /\ reading' = IF rd \/ (kind[s] = "tcp" /\ StopRuns(s))
                  THEN [reading EXCEPT ![s] = FALSE]
                  ELSE reading

\* ------------------------------------------------------------ lines
\* A line given to deliver: its text with the values put into it.  The
\* client's own text is the placeholder <text>.  Strings are ASCII here:
\* a Korean text of the source is written as its English gloss in braces.
Line(fmt, args) == [fmt |-> fmt, args |-> args]

\* The lines a handler gave to the deliver of session to, in call order.
Said(to, lines) == [to |-> to, lines |-> lines]

\* ChatSession::start.
ChatSession_welcome(s) ==
    << Line("Welcome to the CherryRecorder Chat Server!", <<>>),
       Line("Your temporary ID is: %1", <<Rid(s)>>),
       Line("Please set your nickname using /nick <nickname>", <<>>),
       Line("Enter /help for a list of commands.", <<>>),
       Line("Enter /join <roomname> to join or create a room.", <<>>) >>

\* WebSocketSession::on_accept.
WebSocketSession_welcome ==
    << Line("* CherryRecorder {connected to the chat server.}", <<>>),
       Line("* /nick <{nickname}> - {change nickname}", <<>>),
       Line("* /pm <{nickname}> <{message}> - {private message}", <<>>),
       Line("* /list - {user list}", <<>>) >>

\* WebSocketSSLSession::on_accept.
WebSocketSSLSession_welcome ==
    << Line("* CherryRecorder {connected to the chat server. (secure connection)}", <<>>),
       Line("* /nick <{nickname}> - {change nickname}", <<>>),
       Line("* /pm <{nickname}> <{message}> - {private message}", <<>>),
       Line("* /list - {user list}", <<>>) >>

\* The line a session of transport k puts together for a chat line typed
\* in room r: ChatSession frames it with nickname_ and the room,
\* WebSocketSession passes the client's frame as it is, WebSocketSSLSession
\* frames it with nickname_ alone.
room_line(k, nick, r) ==
    CASE k = "tcp" -> Line("[%1 @ %2]: <text>", <<nick, r>>)
      [] k = "ws" -> Line("<text>", <<>>)
      [] OTHER -> Line("[%1] <text>", <<nick>>)

welcome(k, s) ==
    CASE k = "tcp" -> ChatSession_welcome(s)
      [] k = "ws" -> WebSocketSession_welcome
      [] OTHER -> WebSocketSSLSession_welcome

\* ------------------------------------------------------------ listeners
\* A listener accepts a connection and starts its session: ChatSession::start,
\* WebSocketSession::on_accept or WebSocketSSLSession::on_accept call
\* ChatServer::join, deliver the welcome lines and begin to read.
StartSession(s, k) ==
    /\ ~crashed
    /\ kind[s] = "none"
    /\ \A t \in Sessions : t < s => kind[t] # "none"
    /\ stopped_ \/ Len(strandQ) < MaxStrand
    /\ kind' = [kind EXCEPT ![s] = k]
    /\ reading' = [reading EXCEPT ![s] = TRUE]
    /\ sock_open' = [sock_open EXCEPT ![s] = TRUE]
    /\ strandQ' = IF stopped_ THEN strandQ ELSE Append(strandQ, Task("join", s, 0))
    /\ UNCHANGED <<sstopped, nickname, current_room, cmds, sessQ, wsLeave>>
    /\ UNCHANGED <<sessions_, nicknames_, rooms_, stopped_, stopPhase, crashed>>
    /\ UNCHANGED <<writeVars, histVars>>
    /\ said' = {Said(s, welcome(k, s))}
    /\ UNCHANGED <<castVars, lockVars>>

\* The same with the accept loop itself left out.
Accept(s, k) ==
    /\ StartSession(s, k)
    /\ UNCHANGED extVars

\* ------------------------------------------------------ client frames
\* The session can take a frame from its client: on_read ran without error.
CanRead(s) ==
    /\ ~crashed
    /\ reading[s]
    /\ sock_open[s]
    /\ ~wsLeave[s]
    /\ bcast[s].st = "none"
    /\ nickCall[s] = 0
    /\ cmds < MaxCmds

\* "/nick n": try_register_nickname_async rejects at once when the server is
\* stopped, else dispatches try_register_nickname_impl to the strand.  Here
\* the dispatch follows the test of stopped_ at once; NickCheck and
\* NickDispatch are the two steps apart.
CmdNick(s, n) ==
    /\ CanRead(s)
    /\ stopped_ \/ Len(strandQ) < MaxStrand
    /\ cmds' = cmds + 1
    /\ strandQ' = IF stopped_ THEN strandQ ELSE Append(strandQ, Task("nick", s, n))
    /\ UNCHANGED <<kind, reading, sstopped, sock_open, nickname, current_room, sessQ, wsLeave>>
    /\ UNCHANGED <<sessions_, nicknames_, rooms_, stopped_, stopPhase, crashed>>
    /\ UNCHANGED <<writeVars, histVars>>
    /\ UNCHANGED <<castVars, lockVars, lineVars, extVars>>

\* The first step of try_register_nickname_async on the session's thread:
\* the test of stopped_, which rejects the call when the server is stopped.
NickCheck(s, n) ==
    /\ CanRead(s)
    /\ cmds' = cmds + 1
    /\ nickCall' = IF stopped_ THEN nickCall ELSE [nickCall EXCEPT ![s] = n]
    /\ UNCHANGED <<listenVars, proxyVars>>
    /\ UNCHANGED <<kind, reading, sstopped, sock_open, nickname, current_room, sessQ, wsLeave>>
    /\ UNCHANGED <<regVars, writeVars, histVars>>
    /\ UNCHANGED <<castVars, lockVars, lineVars>>

\* Its second step: net::dispatch of try_register_nickname_impl, which does
\* not test stopped_ again, to the strand.
NickDispatch(s) ==
    /\ ~crashed
    /\ nickCall[s] # 0
    /\ Len(strandQ) < MaxStrand
    /\ strandQ' = Append(strandQ, Task("nick", s, nickCall[s]))
    /\ nickCall' = [nickCall EXCEPT ![s] = 0]
    /\ UNCHANGED <<listenVars, proxyVars>>
    /\ UNCHANGED <<sessVars, sessions_, nicknames_, rooms_, stopped_, stopPhase, crashed>>
    /\ UNCHANGED <<writeVars, histVars>>
    /\ UNCHANGED <<castVars, lockVars, lineVars>>

\* "/join r": ChatSession answers at once when r is its current room; the
\* websocket session always asks.  join_room_async rejects when the server
\* is stopped, else dispatches join_room.  WebSocketSSLSession has no /join.
CmdJoin(s, r) ==
    /\ CanRead(s)
    /\ kind[s] \in {"tcp", "ws"}
    /\ LET asks == ~stopped_ /\ ~(kind[s] = "tcp" /\ r = current_room[s])
       IN /\ asks => Len(strandQ) < MaxStrand
          /\ strandQ' = IF asks THEN Append(strandQ, Task("join_room", s, r)) ELSE strandQ
    /\ cmds' = cmds + 1
    /\ UNCHANGED <<kind, reading, sstopped, sock_open, nickname, current_room, sessQ, wsLeave>>
    /\ UNCHANGED <<sessions_, nicknames_, rooms_, stopped_, stopPhase, crashed>>
    /\ UNCHANGED <<writeVars, histVars>>
    /\ UNCHANGED <<castVars, lockVars, lineVars, extVars>>

\* ChatSession "/leave": leave_room_async for the current room, dispatched to
\* the strand; an error reply when the session is in no room.
CmdLeaveTcp(s) ==
    /\ CanRead(s)
    /\ kind[s] = "tcp"
    /\ LET asks == ~stopped_ /\ current_room[s] # NoRoom
       IN /\ asks => Len(strandQ) < MaxStrand
          /\ strandQ' = IF asks
                        THEN Append(strandQ, Task("leave_room", s, current_room[s]))
                        ELSE strandQ
    /\ cmds' = cmds + 1
    /\ UNCHANGED <<kind, reading, sstopped, sock_open, nickname, current_room, sessQ, wsLeave>>
    /\ UNCHANGED <<sessions_, nicknames_, rooms_, stopped_, stopPhase, crashed>>
    /\ UNCHANGED <<writeVars, histVars>>
    /\ UNCHANGED <<castVars, lockVars, lineVars, extVars>>

\* WebSocketSession "/leave r": ChatServer::leave_room is called directly, on
\* the session's executor.  This step is its part under rooms_mutex_; it
\* succeeds whenever the room exists, member or not.
CmdLeaveWs(s, r) ==
    /\ CanRead(s)
    /\ kind[s] = "ws"
    /\ cmds' = cmds + 1
    /\ IF ~stopped_ /\ r \in DOMAIN rooms_
       THEN /\ rooms_' = RoomsAfterLeave(rooms_, r, s)
            /\ wsLeave' = [wsLeave EXCEPT ![s] = TRUE]
            /\ mutCtx' = IF rooms_' # rooms_ THEN "session" ELSE mutCtx
            /\ sent' = {Fan("room_left", r, s, room_broadcast(rooms_[r], s))}
       ELSE /\ UNCHANGED <<rooms_, wsLeave, mutCtx>>
            /\ sent' = {}
    /\ UNCHANGED <<kind, reading, sstopped, sock_open, nickname, current_room, sessQ>>
    /\ UNCHANGED <<sessions_, nicknames_, stopped_, stopPhase, strandQ, crashed>>
    /\ UNCHANGED <<writeVars, stopCalls, leaveCalls, closeCalls>>
    /\ bcast' = AfterRooms(bcast, rooms_, rooms_', FALSE)
    /\ UNCHANGED <<iocQ, lockVars, lineVars, extVars>>

\* The rest of that leave_room call, after the mutex is released:
\* set_current_room("") and the replies.
WsLeaveFinish(s) ==
    /\ ~crashed
    /\ wsLeave[s]
    /\ wsLeave' = [wsLeave EXCEPT ![s] = FALSE]
    /\ current_room' = [current_room EXCEPT ![s] = NoRoom]
    /\ UNCHANGED <<kind, reading, sstopped, sock_open, nickname, cmds, sessQ>>
    /\ UNCHANGED <<regVars, writeVars, histVars>>
    /\ UNCHANGED <<castVars, lockVars, lineVars, extVars>>

\* The farewell of "/quit" among the messages given to deliver; the others
\* are numbered from 1.
Farewell == 0

\* ChatSession "/quit": the farewell is handed to deliver, which posts its
\* closure to the session's strand, then stop_session runs.
CmdQuit(s) ==
    /\ CanRead(s)
    /\ kind[s] = "tcp"
    /\ Len(sessQ[s]) < MaxSessQ
    /\ cmds' = cmds + 1
    /\ sessQ' = [sessQ EXCEPT ![s] = Append(@, Task("deliver", s, Farewell))]
    /\ StopSession(s, strandQ, TRUE)
    /\ UNCHANGED <<kind, nickname, current_room, wsLeave>>
    /\ UNCHANGED <<sessions_, nicknames_, rooms_, stopped_, stopPhase, crashed>>
    /\ UNCHANGED <<writeVars, mutCtx>>
    /\ UNCHANGED <<castVars, lockVars, lineVars, extVars>>

\* The read completes with an error (EOF, reset, close): ChatSession and
\* WebSocketSSLSession call stop_session, WebSocketSession calls
\* ChatServer::leave; none reads again.
ReadError(s) ==
    /\ ~crashed
    /\ reading[s]
    /\ ~wsLeave[s]
    /\ bcast[s].st = "none"
    /\ nickCall[s] = 0
    /\ IF kind[s] = "ws"
       THEN /\ Len(strandQ) < MaxStrand
            /\ strandQ' = Append(strandQ, LeaveTask(s))
            /\ reading' = [reading EXCEPT ![s] = FALSE]
            /\ UNCHANGED <<sstopped, sock_open, leaveCalls, closeCalls, stopCalls>>
       ELSE StopSession(s, strandQ, TRUE)
    /\ UNCHANGED <<kind, nickname, current_room, cmds, sessQ, wsLeave>>
    /\ UNCHANGED <<sessions_, nicknames_, rooms_, stopped_, stopPhase, crashed>>
    /\ UNCHANGED <<writeVars, mutCtx>>
    /\ UNCHANGED <<castVars, lockVars, lineVars, extVars>>

\* A chat line.  In no room it goes to ChatServer::broadcast, which posts
\* broadcast_impl to the strand unless the server is stopped.  In a room the
\* session calls broadcast_to_room itself: this step is the lookup of the
\* room under rooms_mutex_, which fails when the server is stopped or the
\* room is not in rooms_.
CmdSay(s) ==
    /\ CanRead(s)
    /\ cmds' = cmds + 1
    /\ LET r == current_room[s]
           posts == r = NoRoom /\ ~stopped_
           finds == r # NoRoom /\ ~stopped_ /\ r \in DOMAIN rooms_
       IN /\ posts => Len(strandQ) < MaxStrand
          /\ strandQ' = IF posts THEN Append(strandQ, Task("say", s, 0)) ELSE strandQ
          /\ bcast' = IF finds
                       THEN [bcast EXCEPT ![s] = [st |-> "found", r |-> r, det |-> FALSE,
                                                  mem |-> {}, snap |-> {},
                                                  seen |-> {rooms_[r]}]]
                       ELSE bcast
    /\ UNCHANGED <<kind, reading, sstopped, sock_open, nickname, current_room, sessQ, wsLeave>>
    /\ UNCHANGED <<sessions_, nicknames_, rooms_, stopped_, stopPhase, crashed>>
    /\ UNCHANGED <<writeVars, histVars, sent, iocQ, lockVars, lineVars, extVars>>

\* A lookup by name in place of the ChatRoom the call holds.
room_members_by_name(c, rm) == IF c.r \in DOMAIN rm THEN rm[c.r] ELSE {}

\* The members of the ChatRoom object that call c holds by shared_ptr.
room_members(c, rm) == IF c.det THEN c.mem ELSE rm[c.r]

\* ChatRoom::broadcast, first part: the members are copied under the
\* room's mutex.
SayCopy(s) ==
    /\ ~crashed
    /\ bcast[s].st = "found"
    /\ bcast' = [bcast EXCEPT ![s].st = "copied",
                               ![s].snap = room_members(bcast[s], rooms_)]
    /\ UNCHANGED <<sessVars, regVars, writeVars, histVars, sent, iocQ, lockVars, lineVars, extVars>>

\* ChatRoom::broadcast, second part: deliver to every copied member that
\* locks and is not the sender; broadcast_to_room returns.
SayFan(s) ==
    /\ ~crashed
    /\ bcast[s].st = "copied"
    /\ sent' = {Fan("say", bcast[s].r, s, room_broadcast(bcast[s].snap, s))}
    /\ said' = {Said(m, <<room_line(kind[s], nickname[s], bcast[s].r)>>) :
                    m \in room_broadcast(bcast[s].snap, s)}
    /\ UNCHANGED extVars
    /\ bcast' = [bcast EXCEPT ![s].st = "none"]
    /\ UNCHANGED <<sessVars, regVars, writeVars, histVars, iocQ, lockVars>>

\* "/users" (ChatSession) or "/list" (websocket): get_user_list_async
\* answers an empty list through the io_context when the server is stopped,
\* else dispatches the listing to the strand.
CmdUsers(s) ==
    /\ CanRead(s)
    /\ ~stopped_ => Len(strandQ) < MaxStrand
    /\ cmds' = cmds + 1
    /\ strandQ' = IF stopped_ THEN strandQ ELSE Append(strandQ, Task("users", s, 0))
    /\ iocQ' = IF stopped_ THEN iocQ \cup {Task("users_reply", s, 0)} ELSE iocQ
    /\ UNCHANGED <<kind, reading, sstopped, sock_open, nickname, current_room, sessQ, wsLeave>>
    /\ UNCHANGED <<sessions_, nicknames_, rooms_, stopped_, stopPhase, crashed>>
    /\ UNCHANGED <<writeVars, histVars, sent, bcast, lockVars, lineVars, extVars>>

\* The result of send_private_message: accepted (TRUE) unless the server is
\* stopped; the callers pass a sender, a nickname and a text that are not
\* empty.
send_private_message(stopped) == ~stopped

\* "/pm n text" of a websocket session: send_private_message gives up when
\* the server is stopped, else find_session_by_nickname_async dispatches
\* the lookup to the strand.
CmdPm(s, n) ==
    /\ CanRead(s)
    /\ kind[s] \in {"ws", "wss"}
    /\ ~stopped_ => Len(strandQ) < MaxStrand
    /\ cmds' = cmds + 1
    /\ strandQ' = IF send_private_message(stopped_)
                   THEN Append(strandQ, PmTask("find", s, n, nickname[s], n))
                   ELSE strandQ
    /\ UNCHANGED <<kind, reading, sstopped, sock_open, nickname, current_room, sessQ, wsLeave>>
    /\ UNCHANGED <<sessions_, nicknames_, rooms_, stopped_, stopPhase, crashed>>
    /\ UNCHANGED <<writeVars, histVars, castVars, lockVars, lineVars, extVars>>

\* The file of the private history among the receivers of lines.
HistoryFile == 0

\* The lines of a private message from nickname a to nickname b: the frame
\* for the receiver, the confirmation for the sender, the log entry, and
\* the error line for the sender.
PmFrame(a) == Line("[PM from %1]: <text>", <<a>>)
PmConfirmation(b) == Line("* To %1: <text>", <<b>>)
PmLogEntry(a, b) == Line("<timestamp> [%1 -> %2]: <text>", <<a, b>>)
PmError(b) == Line("Error: {user} '%1'{ cannot be found or is offline.}", <<b>>)

\* The reply handler of send_private_message for lookup result t.a: nothing
\* when the server is stopped; the frame to the receiver, the confirmation
\* to the sender and, when MessageHistory::enabled_ (en) is set, the log
\* entry; or the error line to the sender.
pm_lines(stopped, t, en) ==
    IF stopped THEN {}
    ELSE IF t.a # 0
    THEN {Said(t.a, <<PmFrame(t.from)>>), Said(t.s, <<PmConfirmation(t.to)>>)}
         \cup (IF en THEN {Said(HistoryFile, <<PmLogEntry(t.from, t.to)>>)} ELSE {})
    ELSE {Said(t.s, <<PmError(t.to)>>)}

\* A reply handler posted to the io_context runs.  It only calls deliver;
\* the user list handler of a websocket session captures bare `this`:
\* undefined behaviour on a destroyed session.
IocReply(t, en) ==
    /\ ~crashed
    /\ t \in iocQ
    /\ iocQ' = iocQ \ {t}
    /\ crashed' \in IF t.op = "users_reply" /\ kind[t.s] # "tcp" /\ ~Alive(t.s)
                     THEN BOOLEAN ELSE {FALSE}
    /\ said' = IF t.op = "pm_reply" THEN pm_lines(stopped_, t, en) ELSE said
    /\ UNCHANGED extVars
    /\ UNCHANGED <<sessVars, sessions_, nicknames_, rooms_, stopped_, stopPhase, strandQ>>
    /\ UNCHANGED <<writeVars, histVars, sent, bcast, lockVars>>

\* ------------------------------------------------- ChatServer::strand_
\* The strand runs its handlers one at a time, oldest first.
StrandHead(op) ==
    /\ ~crashed
    /\ strandQ # <<>>
    /\ Head(strandQ).op = op

Touched(a, b) == IF a # b THEN "registry" ELSE mutCtx

\* The handler dispatched by ChatServer::join.
StrandJoin ==
    /\ StrandHead("join")
    /\ strandQ' = Tail(strandQ)
    /\ sessions_' = IF stopped_ THEN sessions_ ELSE sessions_ \cup {Head(strandQ).s}
    /\ mutCtx' = Touched(sessions_', sessions_)
    /\ UNCHANGED <<sessVars, nicknames_, rooms_, stopped_, stopPhase, crashed>>
    /\ UNCHANGED <<writeVars, stopCalls, leaveCalls, closeCalls>>
    /\ sent' = IF ~stopped_ /\ Named(Head(strandQ).s)
               THEN {Fan("entered", NoRoom, Head(strandQ).s,
                         broadcast_impl(sessions_', Head(strandQ).s))}
               ELSE {}
    /\ UNCHANGED <<bcast, iocQ, lockVars, lineVars, extVars>>

\* A leave that announces every erased session, named or not.
leave_notice_always(stopped, erased, nick, s) == ~stopped /\ erased

\* The test before leave's broadcast: the session was erased from sessions_
\* and the nickname read at the call is not the remote id.
leave_notice(stopped, erased, nick, s) == ~stopped /\ erased /\ nick # Rid(s)

\* The handler dispatched by ChatServer::leave: leave_all_rooms_impl (a
\* leave_room of current_room()), unregister_nickname of the nickname read at
\* the call when it is not the remote id, sessions_.erase.
StrandLeave ==
    /\ StrandHead("leave")
    /\ LET s == Head(strandQ).s
           nick == Head(strandQ).a
           r == current_room[s]
           left == ~stopped_ /\ r # NoRoom /\ r \in DOMAIN rooms_
       IN /\ rooms_' = IF left THEN RoomsAfterLeave(rooms_, r, s) ELSE rooms_
          /\ current_room' = IF left THEN [current_room EXCEPT ![s] = NoRoom]
                             ELSE current_room
          /\ nicknames_' = IF ~stopped_ /\ nick # Rid(s)
                           THEN unregister_nickname(nicknames_, nick)
                           ELSE nicknames_
          /\ sessions_' = IF stopped_ THEN sessions_ ELSE sessions_ \ {s}
          /\ sent' = (IF left
                       THEN {Fan("room_left", r, s, room_broadcast(rooms_[r], s))}
                       ELSE {})
                      \cup
                      (IF leave_notice(stopped_, s \in sessions_, nick, s)
                       THEN {Fan("left", NoRoom, 0, broadcast_impl(sessions_', 0))}
                       ELSE {})
    /\ strandQ' = Tail(strandQ)
    /\ mutCtx' = Touched(<<sessions_', nicknames_', rooms_'>>, <<sessions_, nicknames_, rooms_>>)
    /\ UNCHANGED <<kind, reading, sstopped, sock_open, nickname, cmds, sessQ, wsLeave>>
    /\ UNCHANGED <<stopped_, stopPhase, crashed>>
    /\ UNCHANGED <<writeVars, stopCalls, leaveCalls, closeCalls>>
    /\ bcast' = AfterRooms(bcast, rooms_, rooms_', FALSE)
    /\ UNCHANGED <<iocQ, lockVars, lineVars, extVars>>

\* try_register_nickname_impl.  The result handler is posted to the
\* session's strand; for an expired session it is posted to the io_context,
\* where a websocket handler runs on its destroyed session.
StrandNick ==
    /\ StrandHead("nick")
    /\ LET s == Head(strandQ).s
           n == Head(strandQ).a
           old == nickname[s]
           ok == can_register(nicknames_, n, s)
       IN IF ~Alive(s)
          THEN /\ crashed' \in BOOLEAN
               /\ UNCHANGED <<nicknames_, sessQ>>
          ELSE /\ Len(sessQ[s]) < MaxSessQ
               /\ crashed' \in IF DerefsEnd(nicknames_, n, s, old) THEN BOOLEAN ELSE {FALSE}
               /\ nicknames_' = IF crashed' \/ ~ok
                                THEN nicknames_
                                ELSE NicksAfterRegister(nicknames_, n, s, old)
               /\ sessQ' = IF crashed' THEN sessQ
                           ELSE [sessQ EXCEPT ![s] =
                                   Append(@, Task(IF ok THEN "nick_result" ELSE "nick_fail", s, n))]
    /\ strandQ' = Tail(strandQ)
    /\ mutCtx' = Touched(nicknames_', nicknames_)
    /\ UNCHANGED <<kind, reading, sstopped, sock_open, nickname, current_room, cmds, wsLeave>>
    /\ UNCHANGED <<sessions_, rooms_, stopped_, stopPhase>>
    /\ UNCHANGED <<writeVars, stopCalls, leaveCalls, closeCalls>>
    /\ UNCHANGED <<castVars, lockVars, lineVars, extVars>>

\* The fan-outs of join_room: the leave notice to the old room before the
\* session is removed from it, the join notice to the target room after the
\* session was added.
JoinRoomFans(rm, rm1, stopped, old, r, s) ==
    IF stopped THEN {}
    ELSE (IF old # NoRoom /\ old # r /\ old \in DOMAIN rm
          THEN {Fan("room_left", old, s, room_broadcast(rm[old], s))}
          ELSE {})
         \cup {Fan("room_joined", r, s, room_broadcast(rm1[r], s))}

\* The handler dispatched by join_room_async: ChatServer::join_room.
StrandJoinRoom ==
    /\ StrandHead("join_room")
    /\ LET s == Head(strandQ).s
           r == Head(strandQ).a
       IN IF stopped_
          THEN UNCHANGED <<rooms_, current_room>>
          ELSE /\ rooms_' = RoomsAfterJoin(rooms_, current_room[s], r, s)
               /\ current_room' = [current_room EXCEPT ![s] = r]
    /\ sent' = JoinRoomFans(rooms_, rooms_', stopped_, current_room[Head(strandQ).s],
                            Head(strandQ).a, Head(strandQ).s)
    /\ strandQ' = Tail(strandQ)
    /\ mutCtx' = Touched(rooms_', rooms_)
    /\ UNCHANGED <<kind, reading, sstopped, sock_open, nickname, cmds, sessQ, wsLeave>>
    /\ UNCHANGED <<sessions_, nicknames_, stopped_, stopPhase, crashed>>
    /\ UNCHANGED <<writeVars, stopCalls, leaveCalls, closeCalls>>
    /\ bcast' = AfterRooms(bcast, rooms_, rooms_', FALSE)
    /\ UNCHANGED <<iocQ, lockVars, lineVars, extVars>>

\* The handler dispatched by leave_room_async: ChatServer::leave_room.
StrandLeaveRoom ==
    /\ StrandHead("leave_room")
    /\ LET s == Head(strandQ).s
           r == Head(strandQ).a
       IN IF ~stopped_ /\ r \in DOMAIN rooms_
          THEN /\ rooms_' = RoomsAfterLeave(rooms_, r, s)
               /\ current_room' = [current_room EXCEPT ![s] = NoRoom]
               /\ sent' = {Fan("room_left", r, s, room_broadcast(rooms_[r], s))}
          ELSE /\ UNCHANGED <<rooms_, current_room>>
               /\ sent' = {}
    /\ strandQ' = Tail(strandQ)
    /\ mutCtx' = Touched(rooms_', rooms_)
    /\ UNCHANGED <<kind, reading, sstopped, sock_open, nickname, cmds, sessQ, wsLeave>>
    /\ UNCHANGED <<sessions_, nicknames_, stopped_, stopPhase, crashed>>
    /\ UNCHANGED <<writeVars, stopCalls, leaveCalls, closeCalls>>
    /\ bcast' = AfterRooms(bcast, rooms_, rooms_', FALSE)
    /\ UNCHANGED <<iocQ, lockVars, lineVars, extVars>>

\* The listing dispatched by get_user_list_async: entries that lock are
\* listed, expired entries are erased; the reply goes to the io_context.
live_entries(nm) == [k \in {x \in DOMAIN nm : Alive(nm[x])} |-> nm[k]]

StrandUsers ==
    /\ StrandHead("users")
    /\ strandQ' = Tail(strandQ)
    /\ nicknames_' = live_entries(nicknames_)
    /\ iocQ' = iocQ \cup {Task("users_reply", Head(strandQ).s, 0)}
    /\ mutCtx' = Touched(nicknames_', nicknames_)
    /\ UNCHANGED <<sessVars, sessions_, rooms_, stopped_, stopPhase, crashed>>
    /\ UNCHANGED <<writeVars, stopCalls, leaveCalls, closeCalls>>
    /\ UNCHANGED <<sent, bcast, lockVars, lineVars, extVars>>

\* The lookup dispatched by find_session_by_nickname_async: the entry, if
\* any, is locked (0: nullptr) and the result posted to the io_context; the
\* map is only read.
find_session(nm, n) == IF n \in DOMAIN nm /\ Alive(nm[n]) THEN nm[n] ELSE 0

StrandFind ==
    /\ StrandHead("find")
    /\ strandQ' = Tail(strandQ)
    /\ iocQ' = iocQ \cup {PmTask("pm_reply", Head(strandQ).s,
                                  find_session(nicknames_, Head(strandQ).a),
                                  Head(strandQ).from, Head(strandQ).to)}
    /\ UNCHANGED <<sessVars, sessions_, nicknames_, rooms_, stopped_, stopPhase, crashed>>
    /\ UNCHANGED <<writeVars, histVars>>
    /\ UNCHANGED <<sent, bcast, lockVars, lineVars, extVars>>

\* The handler posted by ChatServer::broadcast: broadcast_impl.
StrandBroadcast ==
    /\ ~crashed
    /\ strandQ # <<>>
    /\ Head(strandQ).op \in GlobalOps
    /\ strandQ' = Tail(strandQ)
    /\ sent' = IF stopped_ THEN {}
               ELSE {Fan(Head(strandQ).op, NoRoom, Head(strandQ).s,
                         broadcast_impl(sessions_, Head(strandQ).s))}
    /\ UNCHANGED <<sessVars, sessions_, nicknames_, rooms_, stopped_, stopPhase, crashed>>
    /\ UNCHANGED <<writeVars, histVars>>
    /\ UNCHANGED <<bcast, iocQ, lockVars, lineVars, extVars>>

\* ------------------------------------------------------ ChatServer::stop
\* stop(): stopped_.exchange(true), then a handler posted to the io_context.
ServerStop ==
    /\ ~crashed
    /\ ~stopped_
    /\ stopped_' = TRUE
    /\ stopPhase' = "posted"
    /\ UNCHANGED <<sessVars, sessions_, nicknames_, rooms_, strandQ, crashed>>
    /\ UNCHANGED <<writeVars, histVars>>
    /\ UNCHANGED <<castVars, lockVars, lineVars, extVars>>

\* That handler posts the cleanup to the strand.
StopIoc ==
    /\ ~crashed
    /\ stopPhase = "posted"
    /\ Len(strandQ) < MaxStrand
    /\ strandQ' = Append(strandQ, Task("cleanup", 0, 0))
    /\ stopPhase' = "queued"
    /\ UNCHANGED <<sessVars, sessions_, nicknames_, rooms_, stopped_, crashed>>
    /\ UNCHANGED <<writeVars, histVars>>
    /\ UNCHANGED <<castVars, lockVars, lineVars, extVars>>

\* The cleanup on the strand: sessions_ and nicknames_ cleared, stop_session
\* dispatched to the strand of every session of the copy, rooms_ cleared.
StrandCleanup ==
    /\ StrandHead("cleanup")
    /\ \A s \in sessions_ : Len(sessQ[s]) < MaxSessQ
    /\ sessions_' = {}
    /\ nicknames_' = EmptyMap
    /\ rooms_' = EmptyMap
    /\ sessQ' = [s \in Sessions |->
                    IF s \in sessions_ THEN Append(sessQ[s], Task("stop", s, 0)) ELSE sessQ[s]]
    /\ strandQ' = Tail(strandQ)
    /\ stopPhase' = "done"
    /\ mutCtx' = Touched(<<sessions_', nicknames_', rooms_'>>, <<sessions_, nicknames_, rooms_>>)
    /\ UNCHANGED <<kind, reading, sstopped, sock_open, nickname, current_room, cmds, wsLeave>>
    /\ UNCHANGED <<stopped_, crashed>>
    /\ UNCHANGED <<writeVars, stopCalls, leaveCalls, closeCalls>>
    /\ bcast' = AfterRooms(bcast, rooms_, rooms_', TRUE)
    /\ UNCHANGED <<sent, iocQ, lockVars, lineVars, extVars>>

\* ------------------------------------------------- the session strands
\* Each session's strand runs its handlers one at a time, oldest first, and
\* not while a read handler of the session is inside a registry call.
SessHead(s, op) ==
    /\ ~crashed
    /\ sessQ[s] # <<>>
    /\ Head(sessQ[s]).op = op
    /\ ~wsLeave[s]
    /\ bcast[s].st = "none"
    /\ nickCall[s] = 0

\* The /nick result handler, success.  ChatSession returns when stopped_,
\* else sets nickname_ and hands ChatServer::broadcast the first-nickname
\* notice when the nickname was the remote id, the rename notice otherwise;
\* broadcast posts to the strand unless the server is stopped.  The
\* websocket handlers capture bare `this`: on a destroyed session the write
\* is undefined behaviour.
RunNickResult(s) ==
    /\ SessHead(s, "nick_result")
    /\ sessQ' = [sessQ EXCEPT ![s] = Tail(@)]
    /\ LET runs == IF kind[s] = "tcp" THEN ~sstopped[s] ELSE Alive(s)
           notice == IF Named(s) THEN "renamed" ELSE "entered"
       IN /\ (runs /\ ~stopped_) => Len(strandQ) < MaxStrand
          /\ nickname' = IF runs THEN [nickname EXCEPT ![s] = Head(sessQ[s]).a]
                          ELSE nickname
          /\ strandQ' = IF runs /\ ~stopped_
                         THEN Append(strandQ, Task(notice, s, 0))
                         ELSE strandQ
          /\ crashed' \in IF kind[s] # "tcp" /\ ~Alive(s) THEN BOOLEAN ELSE {FALSE}
    /\ UNCHANGED <<kind, reading, sstopped, sock_open, current_room, cmds, wsLeave>>
    /\ UNCHANGED <<sessions_, nicknames_, rooms_, stopped_, stopPhase>>
    /\ UNCHANGED <<writeVars, histVars>>
    /\ UNCHANGED <<castVars, lockVars, lineVars, extVars>>

\* The /nick result handler, failure: an error line is handed to deliver.
RunNickFail(s) ==
    /\ SessHead(s, "nick_fail")
    /\ sessQ' = [sessQ EXCEPT ![s] = Tail(@)]
    /\ crashed' \in IF kind[s] # "tcp" /\ ~Alive(s) THEN BOOLEAN ELSE {FALSE}
    /\ UNCHANGED <<kind, reading, sstopped, sock_open, nickname, current_room, cmds, wsLeave>>
    /\ UNCHANGED <<sessions_, nicknames_, rooms_, stopped_, stopPhase, strandQ>>
    /\ UNCHANGED <<writeVars, histVars>>
    /\ UNCHANGED <<castVars, lockVars, lineVars, extVars>>

\* The stop_session call dispatched by the cleanup of ChatServer::stop.
RunStop(s) ==
    /\ SessHead(s, "stop")
    /\ sessQ' = [sessQ EXCEPT ![s] = Tail(@)]
    /\ StopSession(s, strandQ, FALSE)
    /\ UNCHANGED <<kind, nickname, current_room, cmds, wsLeave>>
    /\ UNCHANGED <<sessions_, nicknames_, rooms_, stopped_, stopPhase, crashed>>
    /\ UNCHANGED <<writeVars, mutCtx>>
    /\ UNCHANGED <<castVars, lockVars, lineVars, extVars>>

\* ------------------------------------------------------------ write path
\* max_queue_size_ of the two websocket sessions.
max_queue_size_ == 100

SeqRemove(q, i) == [j \in 1..(Len(q) - 1) |-> IF j < i THEN q[j] ELSE q[j + 1]]

\* A deliver that starts a write whatever the queue and the flag say.
start_write_always(q, w) == TRUE

\* deliver's test on the queue q and the writing flag w before the push:
\* "write_msgs_.empty() && !writing_flag_" in ChatSession,
\* "!write_in_progress && !is_writing_" in the websocket sessions.
start_write(q, w) == q = <<>> /\ ~w

\* A deliver that puts the message at the front of the queue.
push_front(q, m) == <<m>> \o q

\* deliver's push: push_back / push on the queue.
push(q, m) == Append(q, m)

\* The guard at the top of do_write_strand and WebSocketSession::do_write;
\* WebSocketSSLSession::do_write has none.
do_write_runs(s, q, w) ==
    CASE kind[s] = "tcp" -> ~sstopped[s] /\ q # <<>> /\ ~w
      [] kind[s] = "ws" -> q # <<>> /\ ~w
      [] OTHER -> TRUE

\* Some task that holds the session calls deliver(msg): the closure is
\* posted to the session's strand.  Messages are numbered in call order.
Deliver(s) ==
    /\ ~crashed
    /\ Alive(s)
    /\ msgs < MaxMsgs
    /\ Len(sessQ[s]) < MaxSessQ
    /\ msgs' = msgs + 1
    /\ sessQ' = [sessQ EXCEPT ![s] = Append(@, Task("deliver", s, msgs + 1))]
    /\ UNCHANGED <<kind, reading, sstopped, sock_open, nickname, current_room, cmds, wsLeave>>
    /\ UNCHANGED <<regVars, histVars>>
    /\ UNCHANGED <<write_msgs_, writing, inflight, wfailed, wire>>
    /\ UNCHANGED <<castVars, lockVars, lineVars, extVars>>

\* The closure posted by deliver runs on the session's strand.
RunDeliver(s) ==
    /\ SessHead(s, "deliver")
    /\ LET m == Head(sessQ[s]).a
           q == write_msgs_[s]
           dropped == IF kind[s] = "tcp" THEN sstopped[s] ELSE Len(q) >= max_queue_size_
           q1 == push(q, m)
           starts == /\ ~dropped
                     /\ start_write(q, writing[s])
                     /\ do_write_runs(s, q1, writing[s])
       IN /\ write_msgs_' = IF dropped THEN write_msgs_ ELSE [write_msgs_ EXCEPT ![s] = q1]
          /\ writing' = IF starts THEN [writing EXCEPT ![s] = TRUE] ELSE writing
          /\ inflight' = IF starts THEN [inflight EXCEPT ![s] = Append(@, Head(q1))]
                         ELSE inflight
    /\ sessQ' = [sessQ EXCEPT ![s] = Tail(@)]
    /\ UNCHANGED <<kind, reading, sstopped, sock_open, nickname, current_room, cmds, wsLeave>>
    /\ UNCHANGED <<regVars, histVars>>
    /\ UNCHANGED <<wfailed, wire, msgs>>
    /\ UNCHANGED <<castVars, lockVars, lineVars, extVars>>

\* An outstanding async_write completes, with success only on a socket that
\* is open and has not failed before.
Completes(s, i, ok) ==
    /\ ~crashed
    /\ i \in 1..Len(inflight[s])
    /\ ok => (sock_open[s] /\ ~wfailed[s])
    /\ wire' = IF ok THEN [wire EXCEPT ![s] = Append(@, inflight[s][i])] ELSE wire
    /\ wfailed' = IF ~ok /\ sock_open[s] THEN [wfailed EXCEPT ![s] = TRUE] ELSE wfailed

\* A completion handler that never calls the next do_write.
AfterWriteIdle(s, i, q, again) ==
    /\ write_msgs_' = [write_msgs_ EXCEPT ![s] = q]
    /\ writing' = [writing EXCEPT ![s] = FALSE]
    /\ inflight' = [inflight EXCEPT ![s] = SeqRemove(inflight[s], i)]

\* The write flag and the outstanding writes after a completion handler that
\* leaves queue q behind and calls the next do_write when again is true.
AfterWrite(s, i, q, again) ==
    LET rest == SeqRemove(inflight[s], i)
        next == again /\ do_write_runs(s, q, FALSE)
    IN /\ write_msgs_' = [write_msgs_ EXCEPT ![s] = q]
       /\ writing' = [writing EXCEPT ![s] = next]
       /\ inflight' = [inflight EXCEPT ![s] = IF next THEN Append(rest, Head(q)) ELSE rest]

\* ChatSession::on_write.
WriteDoneTcp(s, i, ok) ==
    /\ kind[s] = "tcp"
    /\ Completes(s, i, ok)
    /\ LET q == write_msgs_[s]
       IN IF sstopped[s]
          THEN /\ AfterWrite(s, i, q, FALSE)
               /\ UNCHANGED sessQ
          ELSE IF ok
          THEN /\ AfterWrite(s, i, IF q # <<>> THEN Tail(q) ELSE q,
                             q # <<>> /\ Tail(q) # <<>> /\ sock_open[s])
               /\ UNCHANGED sessQ
          ELSE /\ Len(sessQ[s]) < MaxSessQ
               /\ AfterWrite(s, i, <<>>, FALSE)
               /\ sessQ' = [sessQ EXCEPT ![s] = Append(@, Task("stop", s, 0))]
    /\ UNCHANGED <<kind, reading, sstopped, sock_open, nickname, current_room, cmds, wsLeave>>
    /\ UNCHANGED <<regVars, histVars, msgs>>
    /\ UNCHANGED <<castVars, lockVars, lineVars, extVars>>

\* WebSocketSession::on_write: on an error only ChatServer::leave is called;
\* the queue keeps its head and nothing closes the stream.
WriteDoneWs(s, i, ok) ==
    /\ kind[s] = "ws"
    /\ Completes(s, i, ok)
    /\ LET q == write_msgs_[s]
       IN IF ok
          THEN /\ AfterWrite(s, i, Tail(q), Tail(q) # <<>>)
               /\ UNCHANGED strandQ
          ELSE /\ Len(strandQ) < MaxStrand
               /\ AfterWrite(s, i, q, FALSE)
               /\ strandQ' = Append(strandQ, LeaveTask(s))
    /\ UNCHANGED <<sessVars, histVars, msgs>>
    /\ UNCHANGED <<sessions_, nicknames_, rooms_, stopped_, stopPhase, crashed>>
    /\ UNCHANGED <<castVars, lockVars, lineVars, extVars>>

\* WebSocketSSLSession::on_write: on an error stop_session is called; the
\* queue keeps its head.
WriteDoneWss(s, i, ok) ==
    /\ kind[s] = "wss"
    /\ Completes(s, i, ok)
    /\ LET q == write_msgs_[s]
       IN IF ok
          THEN /\ AfterWrite(s, i, Tail(q), Tail(q) # <<>>)
               /\ UNCHANGED <<sstopped, sock_open, closeCalls, stopCalls, leaveCalls, strandQ, reading>>
          ELSE /\ AfterWrite(s, i, q, FALSE)
               /\ StopSession(s, strandQ, FALSE)
    /\ UNCHANGED <<kind, nickname, current_room, cmds, sessQ, wsLeave>>
    /\ UNCHANGED <<sessions_, nicknames_, rooms_, stopped_, stopPhase, crashed>>
    /\ UNCHANGED <<msgs, mutCtx>>
    /\ UNCHANGED <<castVars, lockVars, lineVars, extVars>>

\* --------------------------------------------------------- registry spec
Next ==
    \/ \E s \in Sessions, k \in Kinds : Accept(s, k)
    \/ \E s \in Sessions, n \in Nicks : CmdNick(s, n)
    \/ \E s \in Sessions, r \in Rooms : CmdJoin(s, r)
    \/ \E s \in Sessions : CmdLeaveTcp(s)
    \/ \E s \in Sessions, r \in Rooms : CmdLeaveWs(s, r)
    \/ \E s \in Sessions : WsLeaveFinish(s)
    \/ \E s \in Sessions : CmdQuit(s)
    \/ \E s \in Sessions : ReadError(s)
    \/ StrandJoin
    \/ StrandLeave
    \/ StrandNick
    \/ StrandJoinRoom
    \/ StrandLeaveRoom
    \/ StrandBroadcast
    \/ StrandCleanup
    \/ ServerStop
    \/ StopIoc
    \/ \E s \in Sessions : RunNickResult(s)
    \/ \E s \in Sessions : RunNickFail(s)
    \/ \E s \in Sessions : RunStop(s)
    \/ \E s \in Sessions : RunDeliver(s)

Spec == Init /\ [][Next]_vars

\* ------------------------------------------------------- registry claims
\* No task is posted, running or about to be posted: the registry is at rest.
Quiescent ==
    /\ ~crashed
    /\ strandQ = <<>>
    /\ \A s \in Sessions : sessQ[s] = <<>> /\ ~wsLeave[s]
    /\ stopPhase \in {"running", "done"}

\* C1: any two different registered sessions have different nicknames.
C1_DistinctNicknames ==
    \A a, b \in sessions_ : a # b => nickname[a] # nickname[b]

\* C2: at every state the nickname index contains n -> s exactly when s's
\* nickname attribute is n, and every such s is in the session set.
C2_IndexMatchesNickname ==
    /\ \A n \in DOMAIN nicknames_ :
          /\ nickname[nicknames_[n]] = n
          /\ nicknames_[n] \in sessions_
    /\ \A s \in sessions_ :
          Named(s) => /\ nickname[s] \in DOMAIN nicknames_
                      /\ nicknames_[nickname[s]] = s

\* C3: a registered session's current_room is r exactly when it is a member
\* of room r (so it is a member of at most one room), on every transport.
\* States inside a leave_room call of the session itself are left out.
C3_CurrentRoomIsMembership ==
    \A s \in sessions_ : \A r \in Rooms :
        ~wsLeave[s] =>
            (current_room[s] = r <=> (r \in DOMAIN rooms_ /\ s \in rooms_[r]))

\* C4: every room in the room map has at least one member that still exists.
C4_NoEmptyRoom ==
    \A r \in DOMAIN rooms_ : \E s \in rooms_[r] : Alive(s)

\* C5: once stop_session has run on s and the registry is at rest, s is not
\* in the session set, no index entry maps to s and no room has s as a member.
C5_StoppedSessionGone ==
    \A s \in Sessions :
        (stopCalls[s] > 0 /\ Quiescent) =>
            /\ s \notin sessions_
            /\ \A n \in DOMAIN nicknames_ : nicknames_[n] # s
            /\ \A r \in DOMAIN rooms_ : s \notin rooms_[r]

\* The same with expired references counted as absent: what is left of a
\* stopped session at rest is at most entries whose weak_ptr has expired.
StoppedSessionLeavesOnlyStale ==
    \A s \in Sessions :
        (stopCalls[s] > 0 /\ Quiescent) =>
            /\ s \notin sessions_
            /\ \A n \in DOMAIN nicknames_ : nicknames_[n] = s => ~Alive(s)
            /\ \A r \in DOMAIN rooms_ : s \in rooms_[r] => ~Alive(s)

\* C6: stop_session is idempotent on every transport: per session the
\* registry is told to leave at most once and the socket is closed at most once.
C6_StopSessionOnce ==
    \A s \in Sessions : leaveCalls[s] <= 1 /\ closeCalls[s] <= 1

\* C7: the session set, the nickname index and the room map are changed only
\* by handlers running on the server strand.
C7_MutatedOnStrandOnly ==
    mutCtx # "session"

\* ---------------------------------------------------------- write spec
\* Sessions are accepted, written to, fail and stop; the nickname and room
\* commands, which reach the write path only through deliver, are left out.
WNext ==
    \/ \E s \in Sessions, k \in Kinds : Accept(s, k)
    \/ \E s \in Sessions : CmdQuit(s)
    \/ \E s \in Sessions : ReadError(s)
    \/ StrandJoin
    \/ StrandLeave
    \/ StrandCleanup
    \/ ServerStop
    \/ StopIoc
    \/ \E s \in Sessions : RunStop(s)
    \/ \E s \in Sessions : Deliver(s)
    \/ \E s \in Sessions : RunDeliver(s)
    \/ \E s \in Sessions, i \in 1..2, ok \in BOOLEAN : WriteDoneTcp(s, i, ok)
    \/ \E s \in Sessions, i \in 1..2, ok \in BOOLEAN : WriteDoneWs(s, i, ok)
    \/ \E s \in Sessions, i \in 1..2, ok \in BOOLEAN : WriteDoneWss(s, i, ok)

WSpec == Init /\ [][WNext]_vars

\* ------------------------------------------------------------ write claims
\* C8: messages handed to deliver for one session reach its socket in the
\* order of the deliver calls: a message is written whole before a later one.
C8_DeliverOrderOnWire ==
    \A s \in Sessions : \A i, j \in 1..Len(wire[s]) :
        i < j => wire[s][i] < wire[s][j]

\* Two messages of one session have been written to its socket.
C8_TwoWritten ==
    \E s \in Sessions : Len(wire[s]) >= 2

C10_WriteFailureTearsDown ==
    \A s \in Sessions :
        (wfailed[s] /\ Quiescent /\ inflight[s] = <<>>) =>
            /\ write_msgs_[s] = <<>>
            /\ ~sock_open[s]
            /\ s \notin sessions_

\* ------------------------------------------------------- nickname spec
\* The nickname index and its readers: the /nick, /users, /list and /pm
\* commands with the ways a session ends; the room commands are left out.
NNext ==
    \/ \E s \in Sessions, k \in Kinds : Accept(s, k)
    \/ \E s \in Sessions, n \in Nicks : CmdNick(s, n)
    \/ \E s \in Sessions : CmdUsers(s)
    \/ \E s \in Sessions, n \in 1..NumPmNicks : CmdPm(s, n)
    \/ \E s \in Sessions : CmdQuit(s)
    \/ \E s \in Sessions : ReadError(s)
    \/ StrandJoin
    \/ StrandLeave
    \/ StrandNick
    \/ StrandUsers
    \/ StrandFind
    \/ StrandBroadcast
    \/ StrandCleanup
    \/ ServerStop
    \/ StopIoc
    \/ \E t \in iocQ, en \in BOOLEAN : IocReply(t, en)
    \/ \E s \in Sessions : RunNickResult(s)
    \/ \E s \in Sessions : RunNickFail(s)
    \/ \E s \in Sessions : RunStop(s)
    \/ \E s \in Sessions : RunDeliver(s)

NSpec == Init /\ [][NNext]_vars

\* ------------------------------------------------------ broadcast spec
\* Chat lines and their fan-outs against sessions that come, go and change
\* rooms; the nickname commands are left out.
BNext ==
    \/ \E s \in Sessions, k \in Kinds : Accept(s, k)
    \/ \E s \in Sessions, r \in Rooms : CmdJoin(s, r)
    \/ \E s \in Sessions : CmdLeaveTcp(s)
    \/ \E s \in Sessions, r \in Rooms : CmdLeaveWs(s, r)
    \/ \E s \in Sessions : WsLeaveFinish(s)
    \/ \E s \in Sessions : CmdSay(s)
    \/ \E s \in Sessions : SayCopy(s)
    \/ \E s \in Sessions : SayFan(s)
    \/ \E s \in Sessions : CmdQuit(s)
    \/ \E s \in Sessions : ReadError(s)
    \/ StrandJoin
    \/ StrandLeave
    \/ StrandJoinRoom
    \/ StrandLeaveRoom
    \/ StrandBroadcast
    \/ StrandCleanup
    \/ ServerStop
    \/ StopIoc
    \/ \E s \in Sessions : RunStop(s)
    \/ \E s \in Sessions : RunDeliver(s)

BSpec == Init /\ [][BNext]_vars

\* ----------------------------------------------------- broadcast claims
\* C11: the recipients of a broadcast that races joins and leaves are the
\* members as they were at one instant of the broadcast: a global broadcast
\* reaches the session set of the instant broadcast_impl runs, a room
\* broadcast the members (still existing, sender left out) that the room had
\* at some instant between the lookup of the room and the fan-out.
C11_RecipientsAreOneSnapshot ==
    [][/\ \A s \in Sessions :
             SayFan(s) => \E M \in bcast[s].seen :
                            \A f \in sent' : f.to = {m \in M : m # s /\ Alive(m)}
       /\ (StrandBroadcast /\ ~stopped_)
            => \A f \in sent' : f.to = sessions_ \ {f.from}]_vars

\* A room broadcast was fanned out to a member after the room's membership
\* had changed between its lookup and its fan-out.
C11_RacedFanOut ==
    \E f \in sent : \E s \in Sessions :
        /\ f.op = "say" /\ f.r # NoRoom /\ f.from = s
        /\ bcast[s].st = "none" /\ bcast[s].r = f.r
        /\ Cardinality(bcast[s].seen) >= 2
        /\ f.to # {}

\* C13: the sender a broadcast names is never among the sessions the
\* message is delivered to, for global and for room broadcasts.
C13_SenderExcluded ==
    \A f \in sent : f.from \notin f.to

\* A chat line was delivered to someone in a room the sender is a member of.
C13_SentToRoomOfSender ==
    \E f \in sent :
        /\ f.op = "say" /\ f.r # NoRoom /\ f.to # {}
        /\ f.r \in DOMAIN rooms_ /\ f.from \in rooms_[f.r]

\* ----------------------------------------------------- nickname claims
\* The strand is about to run try_register_nickname_impl for session s
\* and nickname n.
NickStep(s, n) ==
    /\ StrandHead("nick")
    /\ Head(strandQ).s = s
    /\ Head(strandQ).a = n
    /\ Alive(s)

\* The result handler of session s for nickname n is about to run.
NickResultStep(s, n) ==
    /\ SessHead(s, "nick_result")
    /\ Head(sessQ[s]).a = n

\* C14: when session s registers the nickname it already holds, the
\* registration succeeds and its result handler causes no broadcast to the
\* other sessions.
C14_RepeatedNickIsSilent ==
    [][\A s \in Sessions, n \in Nicks :
          /\ (NickStep(s, n) /\ nickname[s] = n /\ n \in DOMAIN nicknames_
                 /\ nicknames_[n] = s /\ sessQ' # sessQ)
               => sessQ'[s][Len(sessQ'[s])].op = "nick_result"
          /\ (NickResultStep(s, n) /\ nickname[s] = n /\ sessions_ \ {s} # {}
                 /\ sessQ' # sessQ)
               => strandQ' = strandQ]_vars

\* C15: when the registry accepts a change of session s's nickname from a
\* user-assigned nickname a, which the index maps to s, to another nickname
\* b, the same operation removes a -> s: afterwards b -> s is the only entry
\* of s and a is free for another session.
C15_RenameDropsOldEntry ==
    [][\A s \in Sessions, a \in Nicks, b \in Nicks :
          (/\ NickStep(s, b)
           /\ nickname[s] = a /\ a # b
           /\ a \in DOMAIN nicknames_ /\ nicknames_[a] = s
           /\ can_register(nicknames_, b, s)
           /\ nicknames_' # nicknames_)
          => {k \in DOMAIN nicknames_' : nicknames_'[k] = s} = {b}]_vars

\* The index maps n to a session that no longer exists.
Stale(n) == n \in DOMAIN nicknames_ /\ ~Alive(nicknames_[n])

\* C16: every registry access that meets an index entry of a dead session
\* treats the nickname as absent and removes the entry in the same access:
\* a registration takes the nickname over, a lookup finds nobody and erases
\* it, a listing leaves no such entry behind.
C16_StaleEntryReclaimed ==
    [][\A n \in Nicks :
          /\ \A s \in Sessions :
                (NickStep(s, n) /\ Stale(n) /\ strandQ' = Tail(strandQ) /\ ~crashed')
                => (n \in DOMAIN nicknames_' /\ nicknames_'[n] = s)
          /\ (StrandHead("find") /\ Head(strandQ).a = n /\ Stale(n)
                 /\ strandQ' = Tail(strandQ))
               => (/\ \E t \in iocQ' : t.op = "pm_reply" /\ t.s = Head(strandQ).s /\ t.a = 0
                   /\ n \notin DOMAIN nicknames_')
          /\ (StrandHead("users") /\ Stale(n) /\ strandQ' = Tail(strandQ))
               => n \notin DOMAIN nicknames_']_vars

\* --------------------------------------------------------- room claims
\* The strand is about to run the handler op of session s for room r.
RoomStep(op, s, r) ==
    /\ StrandHead(op)
    /\ Head(strandQ).s = s
    /\ Head(strandQ).a = r
    /\ strandQ' = Tail(strandQ)

\* Session s is a member of room r and r is its current room.
InRoom(s, r) == current_room[s] = r /\ r \in DOMAIN rooms_ /\ s \in rooms_[r]

\* C17: when the registry handles a /join r of a session that is in room r,
\* the membership does not change and no other member receives a notice.
C17_RejoinIsSilent ==
    [][\A s \in Sessions, r \in Rooms :
          (RoomStep("join_room", s, r) /\ InRoom(s, r) /\ ~stopped_)
          => (rooms_' = rooms_ /\ \A f \in sent' : f.to = {})]_vars

\* C18: a room never has more members than its capacity.
C18_RoomWithinCapacity ==
    \A r \in DOMAIN rooms_ : Cardinality(rooms_[r]) <= max_participants_

\* The step is a call of ChatServer::leave_room(r, s): the handler of
\* leave_room_async on the strand or the direct call of a websocket session.
LeaveRoomStep(s, r) ==
    \/ RoomStep("leave_room", s, r) /\ StrandLeaveRoom
    \/ CmdLeaveWs(s, r)

\* C19: leave_room(r, s) fails and changes nothing whenever room r does not
\* exist or s is not a member of it: the rooms and s's current room stay as
\* they are and no member of the room receives a notice.
C19_LeaveOfNonMemberFails ==
    [][\A s \in Sessions, r \in Rooms :
          (LeaveRoomStep(s, r) /\ ~(r \in DOMAIN rooms_ /\ s \in rooms_[r]))
          => /\ rooms_' = rooms_
             /\ current_room' = current_room
             /\ ~wsLeave'[s]
             /\ \A f \in sent' : f.to = {}]_vars

\* The step is the strand's handler of ChatServer::leave for session s.
LeaveStep(s) ==
    /\ StrandHead("leave")
    /\ Head(strandQ).s = s
    /\ StrandLeave

\* C20: when a session that never set a user-assigned nickname ends, no
\* other session receives a broadcast on account of its departure.
C20_UnnamedLeavesSilently ==
    [][\A s \in Sessions :
          (LeaveStep(s) /\ ~Named(s)) => \A f \in sent' : f.to = {}]_vars

\* C20 as amended: the only broadcast is the leave notice of the room the
\* session was in, to that room's other members.
C20_UnnamedLeavesWithRoomNoticeOnly ==
    [][\A s \in Sessions :
          (LeaveStep(s) /\ ~Named(s))
          => \A f \in sent' :
                f.to # {} => /\ f.op = "room_left"
                             /\ f.r = current_room[s]
                             /\ f.to \subseteq rooms_[f.r] \ {s}]_vars

\* A session without a nickname has left while it was in a room with others.
C20_UnnamedLeftARoom ==
    \E s \in Sessions :
        /\ kind[s] # "none" /\ ~Named(s)
        /\ s \notin sessions_ /\ ~stopped_
        /\ ~reading[s]
        /\ \A i \in 1..Len(strandQ) : strandQ[i].s # s
        /\ \E f \in sent : f.op = "room_left" /\ f.from = s /\ f.to # {}

\* ------------------------------------------------------------ lock spec
\* The mutexes of the registry, one operation at a time per thread: thread
\* 0 is whichever pool thread runs ChatServer::strand_, thread s the one
\* that runs session s's handler.  prog[t] is what the operation of t has
\* left to do: lock_guard scopes opened and closed, and deliver calls,
\* which only post to the receiver's strand.  std::mutex is not recursive.
Acq(l) == [op |-> "acq", l |-> l]
Rel(l) == [op |-> "rel", l |-> l]
Post(s) == [op |-> "post", l |-> s]

\* Recipient lists of one fan-out: nobody, or one other session.
Fanouts == {<<>>} \cup {<<m>> : m \in Sessions}

\* ChatRoom::broadcast: the copy under mutex_, then the deliver calls.
ChatRoom_broadcast(r, to) == <<Acq(r), Rel(r)>> \o [i \in 1..Len(to) |-> Post(to[i])]

\* add_participant, remove_participant and empty each lock mutex_.
ChatRoom_locked(r) == <<Acq(r), Rel(r)>>

\* leave_room of session s, r = NoRoom when the room is not in rooms_.
leave_room_locks(s, r, to) ==
    <<Acq(rooms_mutex_)>>
    \o (IF r # NoRoom
        THEN ChatRoom_broadcast(r, to) \o ChatRoom_locked(r) \o ChatRoom_locked(r)
        ELSE <<>>)
    \o <<Rel(rooms_mutex_)>>
    \o (IF r # NoRoom THEN <<Post(s)>> ELSE <<>>)

\* join_room of session s from room old (NoRoom: none, or not in rooms_)
\* to room r.
join_room_locks(s, old, r, to) ==
    <<Acq(rooms_mutex_)>>
    \o (IF old # NoRoom /\ old # r
        THEN ChatRoom_broadcast(old, to) \o ChatRoom_locked(old) \o ChatRoom_locked(old)
        ELSE <<>>)
    \o ChatRoom_locked(r)
    \o <<Rel(rooms_mutex_), Post(s)>>
    \o ChatRoom_broadcast(r, to)

\* The room's mutex taken first and rooms_mutex_ inside it.
broadcast_to_room_room_first(r, to) ==
    IF r # NoRoom
    THEN <<Acq(r), Acq(rooms_mutex_), Rel(rooms_mutex_), Rel(r)>>
         \o [i \in 1..Len(to) |-> Post(to[i])]
         \o <<Acq(history_mutex), Rel(history_mutex)>>
    ELSE <<Acq(rooms_mutex_), Rel(rooms_mutex_)>>

\* broadcast_to_room: the lookup under rooms_mutex_, then the room's
\* broadcast and the history line outside it.
broadcast_to_room_locks(r, to) ==
    <<Acq(rooms_mutex_), Rel(rooms_mutex_)>>
    \o (IF r # NoRoom
        THEN ChatRoom_broadcast(r, to) \o <<Acq(history_mutex), Rel(history_mutex)>>
        ELSE <<>>)

\* try_register_nickname_impl, unregister_nickname, the lookup and the
\* listing each hold nicknames_mutex_ alone; the result goes to a handler.
nickname_locks == <<Acq(nicknames_mutex_), Rel(nicknames_mutex_)>>

\* broadcast_impl: the deliver calls, then the history line.
broadcast_impl_locks(to) ==
    [i \in 1..Len(to) |-> Post(to[i])] \o <<Acq(history_mutex), Rel(history_mutex)>>

\* ChatServer::leave: leave_all_rooms_impl, unregister_nickname, the
\* global notice.
leave_locks(s, r, to) ==
    (IF r # NoRoom THEN leave_room_locks(s, r, to) ELSE <<>>)
    \o nickname_locks \o broadcast_impl_locks(to)

\* The cleanup task of stop(): stop_session dispatched to every session,
\* then rooms_ cleared under rooms_mutex_.
cleanup_locks ==
    [i \in 1..NumSessions |-> Post(i)] \o <<Acq(rooms_mutex_), Rel(rooms_mutex_)>>

\* The operations thread t can be running.
Programs(t) ==
    IF t = 0
    THEN {join_room_locks(s, old, r, to) :
              s \in Sessions, old \in Rooms \cup {NoRoom}, r \in Rooms, to \in Fanouts}
         \cup {leave_room_locks(s, r, to) :
              s \in Sessions, r \in Rooms \cup {NoRoom}, to \in Fanouts}
         \cup {leave_locks(s, r, to) :
              s \in Sessions, r \in Rooms \cup {NoRoom}, to \in Fanouts}
         \cup {broadcast_impl_locks(to) : to \in Fanouts}
         \cup {nickname_locks, cleanup_locks}
    ELSE {broadcast_to_room_locks(r, to) : r \in Rooms \cup {NoRoom}, to \in Fanouts}
         \cup {leave_room_locks(t, r, to) : r \in Rooms \cup {NoRoom}, to \in Fanouts}

\* Thread t starts an operation.
LockCall(t) ==
    /\ prog[t] = <<>>
    /\ \E p \in Programs(t) : prog' = [prog EXCEPT ![t] = p]
    /\ UNCHANGED <<sessVars, regVars, writeVars, histVars, castVars, lineVars, extVars, owner>>

\* A lock_guard is constructed: the thread gets the mutex when it is free.
LockAcquire(t) ==
    /\ prog[t] # <<>>
    /\ Head(prog[t]).op = "acq"
    /\ owner[Head(prog[t]).l] = {}
    /\ owner' = [owner EXCEPT ![Head(prog[t]).l] = {t}]
    /\ prog' = [prog EXCEPT ![t] = Tail(prog[t])]
    /\ UNCHANGED <<sessVars, regVars, writeVars, histVars, castVars, lineVars, extVars>>

\* A lock_guard goes out of scope.
LockRelease(t) ==
    /\ prog[t] # <<>>
    /\ Head(prog[t]).op = "rel"
    /\ owner' = [owner EXCEPT ![Head(prog[t]).l] = {}]
    /\ prog' = [prog EXCEPT ![t] = Tail(prog[t])]
    /\ UNCHANGED <<sessVars, regVars, writeVars, histVars, castVars, lineVars, extVars>>

\* deliver: net::post to the receiver's strand, which waits for nothing.
LockDeliver(t) ==
    /\ prog[t] # <<>>
    /\ Head(prog[t]).op = "post"
    /\ prog' = [prog EXCEPT ![t] = Tail(prog[t])]
    /\ UNCHANGED <<sessVars, regVars, writeVars, histVars, castVars, lineVars, extVars, owner>>

LNext ==
    \/ \E t \in Threads : LockCall(t)
    \/ \E t \in Threads : LockAcquire(t)
    \/ \E t \in Threads : LockRelease(t)
    \/ \E t \in Threads : LockDeliver(t)

LSpec == Init /\ [][LNext]_vars

\* ------------------------------------------------------------ lock claims
\* Thread t is blocked in a lock_guard constructor on a mutex u holds.
WaitsFor(t, u) ==
    /\ prog[t] # <<>>
    /\ Head(prog[t]).op = "acq"
    /\ u \in owner[Head(prog[t]).l]

\* C12: no interleaving of the registry operations and the deliver calls
\* reaches a deadlock: there is never a set of threads each of which waits
\* for a mutex held by a thread of the set, and every mutex that is held
\* is released by what its holder has left to do.
C12_NoWaitCycle ==
    /\ \A T \in SUBSET Threads :
           T # {} => \E t \in T : \A u \in T : ~WaitsFor(t, u)
    /\ \A l \in Locks : \A t \in owner[l] :
           \E i \in 1..Len(prog[t]) : prog[t][i] = Rel(l)

\* The strand holds rooms_mutex_ and waits for a room's mutex that a
\* session thread holds, while another thread waits for rooms_mutex_.
C12_NestedLockContended ==
    \E s \in Sessions : \E u \in Sessions :
        /\ owner[rooms_mutex_] = {0}
        /\ WaitsFor(0, s)
        /\ Head(prog[0]).l \in Rooms
        /\ WaitsFor(u, 0)

\* ------------------------------------------------------- session-end spec
\* The ways a session ends, with the scheduling the io_context gives: its
\* threads run until stop, so a handler at the head of ChatServer::strand_
\* or of a session's strand is eventually run.
QNext ==
    \/ \E s \in Sessions, k \in Kinds : Accept(s, k)
    \/ \E s \in Sessions, n \in 1..NumEndNicks : CmdNick(s, n)
    \/ \E s \in Sessions : CmdQuit(s)
    \/ \E s \in Sessions : ReadError(s)
    \/ StrandJoin
    \/ StrandLeave
    \/ StrandNick
    \/ StrandBroadcast
    \/ StrandCleanup
    \/ ServerStop
    \/ StopIoc
    \/ \E s \in Sessions : RunNickResult(s)
    \/ \E s \in Sessions : RunNickFail(s)
    \/ \E s \in Sessions : RunStop(s)
    \/ \E s \in Sessions : RunDeliver(s)

StrandRuns == StrandJoin \/ StrandLeave \/ StrandNick \/ StrandBroadcast \/ StrandCleanup

SessionRuns(s) == RunNickResult(s) \/ RunNickFail(s) \/ RunStop(s) \/ RunDeliver(s)

QSpec ==
    /\ Init /\ [][QNext]_vars
    /\ WF_vars(StrandRuns)
    /\ \A s \in Sessions : WF_vars(SessionRuns(s))
    /\ WF_vars(StopIoc)

\* ------------------------------------------------------ session-end claims
\* Session s has ended (its read loop is over) with a user-assigned
\* nickname and is still in sessions_.
EndedNamed(s) ==
    /\ kind[s] # "none" /\ ~reading[s]
    /\ Named(s)
    /\ s \in sessions_

\* The step runs the leave of session s, called when its nickname was
\* user-assigned, while s is in sessions_.
NamedLeaveStep(s) ==
    /\ LeaveStep(s)
    /\ Head(strandQ).a \in Nicks
    /\ s \in sessions_

OthersKept(a) ==
    \A b \in Sessions \ {a} :
        Alive(b) =>
            /\ b \in sessions_ => b \in sessions_'
            /\ \A n \in DOMAIN nicknames_ :
                   nicknames_[n] = b => (n \in DOMAIN nicknames_' /\ nicknames_'[n] = b)
            /\ \A r \in DOMAIN rooms_ :
                   b \in rooms_[r] => (r \in DOMAIN rooms_' /\ b \in rooms_'[r])
            /\ sock_open[b] => sock_open'[b]

\* C22: a processing exception or I/O error in session a ends only a: the
\* failed read and the leave that follows take nothing from another session.
C22_ErrorEndsOnlyThatSession ==
    [][\A a \in Sessions : (ReadError(a) \/ LeaveStep(a)) => OthersKept(a)]_vars

\* ------------------------------------------------------ operation claims
\* C23: every registry operation completes by returning success or failure
\* to the initiating session and none faults; nickname registration
\* completes whether or not the session's previous nickname still has an
\* entry in nicknames_.
C23_RegistrationCompletes ==
    [][\A s \in Sessions, n \in Nicks :
          (NickStep(s, n) /\ StrandNick)
          => /\ ~DerefsEnd(nicknames_, n, s, nickname[s])
             /\ ~crashed'
             /\ Len(sessQ'[s]) = Len(sessQ[s]) + 1]_vars

\* ------------------------------------------------------------ line claims
\* C24: on session start, for every transport, the client receives the
\* five welcome lines with the stated text, in the stated order.
C24_FiveWelcomeLines ==
    [][\A s \in Sessions, k \in Kinds :
          Accept(s, k)
          => said' = {Said(s,
                 << Line("Welcome to the CherryRecorder Chat Server!", <<>>),
                    Line("Your temporary ID is: %1", <<Rid(s)>>),
                    Line("Please set your nickname using /nick <nickname>", <<>>),
                    Line("Enter /help for a list of commands.", <<>>),
                    Line("Enter /join <roomname> to join or create a room.", <<>>) >>)}]_vars

\* The step is the strand's handler of ChatServer::join for session s.
JoinStep(s) ==
    /\ StrandHead("join")
    /\ Head(strandQ).s = s
    /\ StrandJoin

\* C25: a client that connects to the chat port and sends nothing receives
\* six lines: the five welcome lines from start and, from its join, a line
\* saying that a user has entered.
C25_WelcomeThenEntered ==
    [][\A s \in Sessions :
          /\ Accept(s, "tcp") => \E w \in said' : w.to = s /\ Len(w.lines) = 5
          /\ (JoinStep(s) /\ kind[s] = "tcp" /\ ~stopped_)
               => \E f \in sent' : f.op = "entered" /\ s \in f.to]_vars

\* C26: a chat line sent by session s while its current room is R is
\* delivered as "[<nick> @ R]: <text>" to every other member of R and to
\* no session outside R, on every transport.
C26_RoomLineFramed ==
    [][\A s \in Sessions :
          SayFan(s)
          => \E M \in bcast[s].seen :
                said' = {Said(m, <<Line("[%1 @ %2]: <text>", <<nickname[s], bcast[s].r>>)>>) :
                            m \in {x \in M : x # s /\ Alive(x)}}]_vars

\* The farewell of session s has been handed to deliver and is not on the
\* wire yet: its closure is queued, or it is in write_msgs_, or its write
\* is outstanding.
FarewellPending(s) ==
    \/ \E i \in 1..Len(sessQ[s]) : sessQ[s][i] = Task("deliver", s, Farewell)
    \/ \E i \in 1..Len(write_msgs_[s]) : write_msgs_[s][i] = Farewell
    \/ \E i \in 1..Len(inflight[s]) : inflight[s][i] = Farewell

\* C27: when a session sends /quit, the farewell is written to the
\* client's socket before teardown closes the socket: the socket is open
\* for as long as the farewell is on its way, and deliver does not drop it.
C27_FarewellBeforeClose ==
    /\ [](\A s \in Sessions : FarewellPending(s) => sock_open[s])
    /\ [][\A s \in Sessions :
             (SessHead(s, "deliver") /\ Head(sessQ[s]).a = Farewell /\ RunDeliver(s))
             => FarewellPending(s)']_vars

\* ------------------------------------------------ private messages
\* Line l has been delivered to the receiver `to` by the last handler.
Got(to, l) == \E d \in said : d.to = to /\ \E i \in 1..Len(d.lines) : d.lines[i] = l

\* Some session has been handed a private-message frame or a confirmation.
PmDelivered ==
    \E d \in said : /\ d.to \in Sessions
                     /\ \E i \in 1..Len(d.lines) :
                           d.lines[i].fmt \in {PmFrame(0).fmt, PmConfirmation(0).fmt}

\* The reply handler of the accepted private message t runs.
PmReplyStep(t, en) == t.op = "pm_reply" /\ IocReply(t, en)

\* C28: whenever send_private_message(m, A, B) has succeeded, its reply
\* hands A the "To B" confirmation and hands the session holding B the
\* "PM from A" frame, and the private history gets the entry exactly when
\* history is enabled.
C28_PmEchoSymmetry ==
    [][\A t \in iocQ : \A en \in BOOLEAN :
          PmReplyStep(t, en)
          => (/\ Got(t.s, PmConfirmation(t.to))'
              /\ \E b \in Sessions : Got(b, PmFrame(t.from))'
              /\ Got(HistoryFile, PmLogEntry(t.from, t.to))' <=> en)]_vars

\* C29: send_private_message reports "rejected" whenever no live registered
\* session holds the receiver's nickname, and the reply of such a call
\* delivers no private-message frame and no confirmation to any session.
C29_PmToAbsentRejected ==
    [][/\ \A s \in Sessions : \A n \in Nicks :
             (CmdPm(s, n) /\ find_session(nicknames_, n) = 0)
             => ~send_private_message(stopped_)
       /\ \A t \in iocQ : \A en \in BOOLEAN :
             (PmReplyStep(t, en) /\ t.a = 0) => ~PmDelivered']_vars

\* ------------------------------------------------------ backlog spec
\* Sessions whose clients have stopped reading from the socket: the first
\* write is outstanding and does not complete, and the messages delivered
\* since are queued behind it.  The queue lengths at the start are around
\* the cap.
Backlog == MaxMsgs + 1
CapLens == {0, max_queue_size_ - 1, max_queue_size_}

CapInit ==
    \E k \in [Sessions -> Kinds], n \in [Sessions -> CapLens] :
        /\ kind = k
        /\ reading = [s \in Sessions |-> TRUE]
        /\ sstopped = [s \in Sessions |-> FALSE]
        /\ sock_open = [s \in Sessions |-> TRUE]
        /\ nickname = [s \in Sessions |-> Rid(s)]
        /\ current_room = [s \in Sessions |-> NoRoom]
        /\ cmds = 0
        /\ sessQ = [s \in Sessions |-> <<>>]
        /\ wsLeave = [s \in Sessions |-> FALSE]
        /\ sessions_ = Sessions
        /\ nicknames_ = EmptyMap
        /\ rooms_ = EmptyMap
        /\ stopped_ = FALSE
        /\ stopPhase = "running"
        /\ strandQ = <<>>
        /\ crashed = FALSE
        /\ write_msgs_ = [s \in Sessions |-> [i \in 1..n[s] |-> Backlog]]
        /\ writing = [s \in Sessions |-> n[s] > 0]
        /\ inflight = [s \in Sessions |-> IF n[s] > 0 THEN <<Backlog>> ELSE <<>>]
        /\ wfailed = [s \in Sessions |-> FALSE]
        /\ wire = [s \in Sessions |-> <<>>]
        /\ msgs = 0
        /\ stopCalls = [s \in Sessions |-> 0]
        /\ leaveCalls = [s \in Sessions |-> 0]
        /\ closeCalls = [s \in Sessions |-> 0]
        /\ mutCtx = "none"
        /\ sent = {}
        /\ bcast = [s \in Sessions |-> NoCast]
        /\ iocQ = {}
        /\ owner = [l \in Locks |-> {}]
        /\ prog = [t \in Threads |-> <<>>]
        /\ said = {}
        /\ ExtInit

CapNext ==
    \/ \E s \in Sessions : ReadError(s)
    \/ StrandLeave
    \/ \E s \in Sessions : Deliver(s)
    \/ \E s \in Sessions : RunDeliver(s)

CapSpec == CapInit /\ [][CapNext]_vars

\* The closure of a deliver to s runs while the queue of s is at the cap.
FullDeliverStep(s) ==
    /\ SessHead(s, "deliver")
    /\ Len(write_msgs_[s]) >= max_queue_size_
    /\ RunDeliver(s)

\* C30: when the outbound queue of a session has reached the cap, a further
\* deliver to it is dropped: the queue does not grow, the session is not
\* disconnected and stays registered, and what is queued for the other
\* sessions is left as it is.
C30_FullQueueDrops ==
    [][\A s \in Sessions :
          FullDeliverStep(s)
          => (/\ Len(write_msgs_'[s]) <= Len(write_msgs_[s])
              /\ sock_open'[s] = sock_open[s]
              /\ sstopped'[s] = sstopped[s]
              /\ sessions_' = sessions_
              /\ \A o \in Sessions \ {s} :
                    write_msgs_'[o] = write_msgs_[o] /\ sessQ'[o] = sessQ[o])]_vars

\* ---------------------------------------------------------- room spec
\* Sessions that are connected and registered, each in a room or in none,
\* leave and join rooms and disconnect.  wss sessions have no /join.
RoomKinds == {"tcp", "ws"}

RoomInit ==
    \E k \in [Sessions -> RoomKinds], m \in [Sessions -> Rooms \cup {NoRoom}] :
        /\ kind = k
        /\ reading = [s \in Sessions |-> TRUE]
        /\ sstopped = [s \in Sessions |-> FALSE]
        /\ sock_open = [s \in Sessions |-> TRUE]
        /\ nickname = [s \in Sessions |-> Rid(s)]
        /\ current_room = m
        /\ cmds = 0
        /\ sessQ = [s \in Sessions |-> <<>>]
        /\ wsLeave = [s \in Sessions |-> FALSE]
        /\ sessions_ = Sessions
        /\ nicknames_ = EmptyMap
        /\ rooms_ = [r \in {m[s] : s \in Sessions} \ {NoRoom} |-> {s \in Sessions : m[s] = r}]
        /\ stopped_ = FALSE
        /\ stopPhase = "running"
        /\ strandQ = <<>>
        /\ crashed = FALSE
        /\ write_msgs_ = [s \in Sessions |-> <<>>]
        /\ writing = [s \in Sessions |-> FALSE]
        /\ inflight = [s \in Sessions |-> <<>>]
        /\ wfailed = [s \in Sessions |-> FALSE]
        /\ wire = [s \in Sessions |-> <<>>]
        /\ msgs = 0
        /\ stopCalls = [s \in Sessions |-> 0]
        /\ leaveCalls = [s \in Sessions |-> 0]
        /\ closeCalls = [s \in Sessions |-> 0]
        /\ mutCtx = "none"
        /\ sent = {}
        /\ bcast = [s \in Sessions |-> NoCast]
        /\ iocQ = {}
        /\ owner = [l \in Locks |-> {}]
        /\ prog = [t \in Threads |-> <<>>]
        /\ said = {}
        /\ ExtInit

RoomNext ==
    \/ \E s \in Sessions, r \in Rooms : CmdJoin(s, r)
    \/ \E s \in Sessions : CmdLeaveTcp(s)
    \/ \E s \in Sessions, r \in Rooms : CmdLeaveWs(s, r)
    \/ \E s \in Sessions : WsLeaveFinish(s)
    \/ \E s \in Sessions : ReadError(s)
    \/ StrandLeave
    \/ StrandJoinRoom
    \/ StrandLeaveRoom

RoomSpec == RoomInit /\ [][RoomNext]_vars

\* The members of room r in the room map rm whose sessions still exist.
Members(rm, r) == IF r \in DOMAIN rm THEN {x \in rm[r] : Alive(x)} ELSE {}

\* The rooms other than r are the same before and after the step.
OtherRoomsKept(r) ==
    \A o \in Rooms \ {r} :
        /\ o \in DOMAIN rooms_' <=> o \in DOMAIN rooms_
        /\ o \in DOMAIN rooms_ => rooms_'[o] = rooms_[o]

\* The registry is about to handle a join of room r by session s whose
\* last room operation was its own leave of r, announced to the members in
\* to, with no fan-out since.
RejoinStep(s, r, to) ==
    /\ RoomStep("join_room", s, r)
    /\ StrandJoinRoom
    /\ ~stopped_
    /\ reading[s]
    /\ current_room[s] = NoRoom
    /\ sent = {Fan("room_left", r, s, to)}

\* C31: when a member S of room R leaves R and then joins R again, the room
\* map holds the same rooms with the same members as before the leave: the
\* leave takes S, and nobody else that still exists, out of R and leaves
\* the other rooms alone, and the join that follows puts S back with the
\* members that were there at the leave.
C31_LeaveJoinRoundTrip ==
    [][\A s \in Sessions, r \in Rooms :
          /\ (LeaveRoomStep(s, r) /\ InRoom(s, r) /\ ~stopped_)
                => /\ Members(rooms_, r)' = Members(rooms_, r) \ {s}
                   /\ OtherRoomsKept(r)
          /\ \A to \in SUBSET Sessions :
                RejoinStep(s, r, to)
                => /\ r \in DOMAIN rooms_'
                   /\ Members(rooms_, r)' = {x \in to \cup {s} : Alive(x)'}
                   /\ current_room'[s] = r
                   /\ OtherRoomsKept(r)]_vars

\* Session s has left room r, where it left another member behind, and its
\* join of r is the next task of the registry.
C31_RejoinAfterLeave ==
    \E s \in Sessions, r \in Rooms :
        /\ StrandHead("join_room")
        /\ Head(strandQ).s = s
        /\ Head(strandQ).a = r
        /\ ~stopped_
        /\ reading[s]
        /\ current_room[s] = NoRoom
        /\ \E f \in sent : f = Fan("room_left", r, s, f.to) /\ f.to # {}
        /\ Members(rooms_, r) # {}

\* ------------------------------------------------------------ shutdown
\* C33: on a shutdown the listeners are cancelled first, so that no
\* connection is accepted once ChatServer::stop has begun, and after that
\* the cleanup triggers stop_session on every session of the session set.
C33_ListenersThenSessions ==
    [][/\ \A s \in Sessions, k \in Kinds : Accept(s, k) => ~stopped_
       /\ (StrandHead("cleanup") /\ StrandCleanup)
             => \A s \in sessions_ :
                   \E i \in 1..Len(sessQ'[s]) : sessQ'[s][i] = Task("stop", s, 0)]_vars

\* C38: when session S leaves the registry, only index entries that map to
\* S are removed: a nickname that maps to another session that still exists
\* maps to that session after the leave, also while a /nick of S is being
\* applied.
C38_LeaveKeepsOthersNicknames ==
    [][\A s \in Sessions :
          LeaveStep(s)
          => \A n \in DOMAIN nicknames_ :
                (nicknames_[n] # s /\ Alive(nicknames_[n]))
                => (n \in DOMAIN nicknames_' /\ nicknames_'[n] = nicknames_[n])]_vars

\* ----------------------------------------------------------- stop spec
\* ChatServer::stop against sessions that connect, register nicknames, join
\* rooms and end, with the two steps of a /nick call apart.
StopNext ==
    \/ \E s \in Sessions, k \in Kinds : Accept(s, k)
    \/ \E s \in Sessions, n \in 1..NumEndNicks : NickCheck(s, n)
    \/ \E s \in Sessions : NickDispatch(s)
    \/ \E s \in Sessions, r \in Rooms : CmdJoin(s, r)
    \/ \E s \in Sessions : ReadError(s)
    \/ StrandJoin
    \/ StrandLeave
    \/ StrandNick
    \/ StrandJoinRoom
    \/ StrandBroadcast
    \/ StrandCleanup
    \/ ServerStop
    \/ StopIoc
    \/ \E s \in Sessions : RunNickResult(s)
    \/ \E s \in Sessions : RunNickFail(s)
    \/ \E s \in Sessions : RunStop(s)

StopSpec == Init /\ [][StopNext]_vars

\* C40: once the cleanup of ChatServer::stop has run, the session set, the
\* nickname index and the room map are empty and stay empty, whatever
\* requests arrive or complete afterwards.
C40_EmptyAfterCleanup ==
    stopPhase = "done" => (sessions_ = {} /\ nicknames_ = EmptyMap /\ rooms_ = EmptyMap)

\* ------------------------------------------------------------ accept loops
\* The error code an async_accept completes with.
AcceptEcs == {"success", "operation_aborted", "other"}

\* Whether the completion handler issues the next async_accept, given the
\* error code and acceptor_.is_open().  WebSocketListener::on_accept calls
\* do_accept() whatever the error code is.
WebSocketListener_on_accept(ec, open) == TRUE

\* ChatListener::on_accept returns when the acceptor is closed and calls
\* do_accept() when it is open; operation_aborted is only kept out of the log.
ChatListener_on_accept(ec, open) == open

\* The handler of EchoServer::doAccept returns on operation_aborted and
\* calls doAccept() again when the acceptor is open.
EchoServer_doAccept(ec, open) == ec # "operation_aborted" /\ open

Rearms(l, ec, open) ==
    CASE l = "WebSocketListener" -> WebSocketListener_on_accept(ec, open)
      [] l = "ChatListener" -> ChatListener_on_accept(ec, open)
      [] OTHER -> EchoServer_doAccept(ec, open)

\* The transports of the sessions a listener creates; the echo sessions of
\* EchoServer are no chat sessions.
Creates(l) ==
    CASE l = "WebSocketListener" -> {"ws", "wss"}
      [] l = "ChatListener" -> {"tcp"}
      [] OTHER -> {}

\* The outstanding async_accept of listener l completes with ec.  On a closed
\* acceptor the operation has been cancelled.  On success the chat listeners
\* create a session and start it.
OnAccept(l, ec) ==
    /\ accepting[l]
    /\ accepts[l] < MaxAccepts
    /\ ~acceptor_open[l] => ec = "operation_aborted"
    /\ accepts' = [accepts EXCEPT ![l] = @ + 1]
    /\ accepting' = [accepting EXCEPT ![l] = Rearms(l, ec, acceptor_open[l])]
    /\ IF ec = "success" /\ Creates(l) # {}
       THEN \E s \in Sessions, k \in Creates(l) : StartSession(s, k)
       ELSE UNCHANGED <<sessVars, regVars, writeVars, histVars, castVars, lockVars, lineVars>>
    /\ UNCHANGED <<acceptor_open, nickCall, proxyVars>>

\* EchoServer::stop closes the acceptor, which cancels the outstanding accept.
EchoServer_stop ==
    /\ acceptor_open["EchoServer"]
    /\ acceptor_open' = [acceptor_open EXCEPT !["EchoServer"] = FALSE]
    /\ UNCHANGED <<accepting, accepts, proxyVars, chatVars>>

ListenNext ==
    \/ \E l \in Listeners, ec \in AcceptEcs : OnAccept(l, ec)
    \/ EchoServer_stop

ListenSpec == Init /\ [][ListenNext]_vars

max_retries == 3
EADDRNOTAVAIL == 99

\* Error codes of one net::connect: 0 is success, 111 is ECONNREFUSED.
ConnectEcs == {0, EADDRNOTAVAIL, 111}

\* Status codes and bodies the upstream answers with.
Statuses == {200, 404, 500}
Bodies ==
    { <<"{", " ", "code", ":", " ", "404", " ", "}">>,
      <<"{", "code", ":", "404", "}">>,
      <<"{", "places", ":", "[", "]", "}">>,
      <<"<html>", "Not Found", "</html>">> }

\* json::parse accepts the body.
IsJson(b) == b # <<>> /\ Head(b) = "{"

\* json::serialize(json::parse(b)): the value written without white space.
Reserialize(b) == SelectSeq(b, LAMBDA x : x # " ")

\* json::serialize of the object {"error": text}.
ErrorObject(text) == <<"{", "error", ":", "<quote>">> \o text \o <<"<quote>", "}">>

\* createErrorResponse(status_code, error).
createErrorResponse(status, error) == Message(status, ErrorObject(error))

\* What requestGooglePlacesApi returns: the object with __error_status_code
\* and __error_body (marker), or a plain object given by its serialization.
Result(marker, status, body) == [marker |-> marker, status |-> status, body |-> body]

\* The catch of requestGooglePlacesApi: the object {"error": e.what()}.
requestGooglePlacesApi_catch(what) == Result(FALSE, 0, ErrorObject(<<what>>))

\* The result object of a 2xx response: the transformed places, if any.
Transformed(b) ==
    IF \E i \in 1..Len(b) : b[i] = "places"
    THEN <<"{", "places", ":", "[", "]", "}">>
    ELSE <<"{", "}">>

\* requestGooglePlacesApi on the response res it has read.
requestGooglePlacesApi_response(res) ==
    IF ~IsJson(res.body) THEN Result(TRUE, res.status, res.body)
    ELSE IF res.status < 200 \/ res.status >= 300
    THEN Result(TRUE, res.status, Reserialize(res.body))
    ELSE Result(FALSE, 0, Transformed(res.body))

\* handleNearbySearch on what requestGooglePlacesApi returned.
handleNearbySearch(result) ==
    IF result.marker
    THEN createErrorResponse(result.status, result.body)
    ELSE Message(200, result.body)

\* An exception reaches the catch of requestGooglePlacesApi at step f.
Fails(f) ==
    /\ fault' = f
    /\ response' = handleNearbySearch(requestGooglePlacesApi_catch(f))
    /\ phase' = "done"

\* A client posts to the endpoint; a body that does not parse is answered
\* with 400 at once.
PlacesRequest(valid) ==
    /\ phase \in {"idle", "done"}
    /\ requests < MaxRequests
    /\ requests' = requests + 1
    /\ retry_count' = 0
    /\ last_error' = 0
    /\ tried' = <<>>
    /\ waits' = <<>>
    /\ upstream' = NoMessage
    /\ fault' = "none"
    /\ phase' = IF valid THEN "resolve" ELSE "done"
    /\ response' = IF valid THEN NoMessage
                   ELSE createErrorResponse(400, <<"Error processing request">>)
    /\ UNCHANGED <<chatVars, listenVars>>

\* resolver.resolve.
Resolve(ok) ==
    /\ phase = "resolve"
    /\ IF ok
       THEN phase' = "connect" /\ UNCHANGED <<fault, response>>
       ELSE Fails("dns")
    /\ UNCHANGED <<retry_count, last_error, tried, waits, upstream, requests>>
    /\ UNCHANGED <<chatVars, listenVars>>

\* One pass of the connect loop, net::connect giving ec.  EADDRNOTAVAIL
\* below the last pass sleeps and counts; any other failure is thrown, and
\* the catch inside the loop counts and goes on unless it is the last pass.
ConnectAttempt(ec) ==
    /\ phase = "connect"
    /\ retry_count < max_retries
    /\ tried' = Append(tried, ec)
    /\ IF ec = 0
       THEN /\ phase' = "handshake"
            /\ UNCHANGED <<retry_count, last_error, waits, fault, response>>
       ELSE /\ last_error' = ec
            /\ IF ec = EADDRNOTAVAIL /\ retry_count < max_retries - 1
               THEN /\ waits' = Append(waits, 100 * (retry_count + 1))
                    /\ retry_count' = retry_count + 1
                    /\ UNCHANGED <<phase, fault, response>>
               ELSE IF retry_count >= max_retries - 1
               THEN /\ Fails("connect")
                    /\ UNCHANGED <<retry_count, waits>>
               ELSE /\ retry_count' = retry_count + 1
                    /\ UNCHANGED <<phase, waits, fault, response>>
    /\ UNCHANGED <<upstream, requests>>
    /\ UNCHANGED <<chatVars, listenVars>>

\* stream.handshake.
Handshake(ok) ==
    /\ phase = "handshake"
    /\ IF ok
       THEN phase' = "exchange" /\ UNCHANGED <<fault, response>>
       ELSE Fails("tls")
    /\ UNCHANGED <<retry_count, last_error, tried, waits, upstream, requests>>
    /\ UNCHANGED <<chatVars, listenVars>>

\* http::write of the request and http::read of the response.
Exchange(ok, status, body) ==
    /\ phase = "exchange"
    /\ IF ok
       THEN /\ upstream' = Message(status, body)
            /\ phase' = "shutdown"
            /\ UNCHANGED <<fault, response>>
       ELSE /\ Fails("read")
            /\ UNCHANGED upstream
    /\ UNCHANGED <<retry_count, last_error, tried, waits, requests>>
    /\ UNCHANGED <<chatVars, listenVars>>

\* stream.shutdown, then the response is worked into the client's answer;
\* eof and stream_truncated count as a clean shutdown.
Shutdown(ec) ==
    /\ phase = "shutdown"
    /\ IF ec \in {"success", "eof", "stream_truncated"}
       THEN /\ response' = handleNearbySearch(requestGooglePlacesApi_response(upstream))
            /\ phase' = "done"
            /\ UNCHANGED fault
       ELSE Fails("shutdown")
    /\ UNCHANGED <<retry_count, last_error, tried, waits, upstream, requests>>
    /\ UNCHANGED <<chatVars, listenVars>>

ProxyNext ==
    \/ \E valid \in BOOLEAN : PlacesRequest(valid)
    \/ \E ok \in BOOLEAN : Resolve(ok)
    \/ \E ec \in ConnectEcs : ConnectAttempt(ec)
    \/ \E ok \in BOOLEAN : Handshake(ok)
    \/ \E ok \in BOOLEAN, status \in Statuses, body \in Bodies : Exchange(ok, status, body)
    \/ \E ec \in {"success", "eof", "stream_truncated", "other"} : Shutdown(ec)

ProxySpec == Init /\ [][ProxyNext]_vars

\* ------------------------------------------------------------ proxy claims
\* The request is answered after the upstream's response was read and the
\* stream shut down cleanly.
Answered == phase = "done" /\ fault = "none" /\ upstream # NoMessage

\* C34: for every non-2xx upstream response, the client's response has the
\* same status code and a body identical to the upstream body.
C34_UpstreamErrorVerbatim ==
    (Answered /\ (upstream.status < 200 \/ upstream.status >= 300))
    => (response.status = upstream.status /\ response.body = upstream.body)

\* C35: every transport error on the upstream call (DNS, connect, TLS or
\* read failure) is answered with status 500 and a reason.
C35_TransportErrorIs500 ==
    (phase = "done" /\ fault \in {"dns", "connect", "tls", "read"})
    => (response.status = 500 /\ response.body # <<>>)

\* Every connect attempt of the request so far failed with EADDRNOTAVAIL.
AllAddrNotAvail == \A i \in 1..Len(tried) : tried[i] = EADDRNOTAVAIL

\* C36: while the connect keeps failing with EADDRNOTAVAIL the proxy retries
\* up to three times, waiting 100, 200 and 300 ms before the retries, and
\* surfaces the error only after the third retry has failed.
C36_ThreeRetriesWithBackoff ==
    AllAddrNotAvail
    => /\ Len(tried) <= 1 + 3
       /\ waits = SubSeq(<<100, 200, 300>>, 1, Len(waits))
       /\ (phase = "done" /\ fault = "connect")
              => (Len(tried) = 1 + 3 /\ waits = <<100, 200, 300>>)

\* C37: a connect failure with an error code other than EADDRNOTAVAIL is
\* surfaced at once: no connect attempt follows it.
C37_OtherErrorNotRetried ==
    \A i \in 1..Len(tried) :
        tried[i] \notin {0, EADDRNOTAVAIL}
        => (i = Len(tried) /\ phase = "done" /\ fault = "connect")

\* ------------------------------------------------------------ drain spec
\* The write path with the scheduling the io_context gives: a closure at
\* the head of a session's strand is eventually run, and an outstanding
\* async_write eventually completes, with success or with an error.
DrainNext ==
    \/ \E s \in Sessions, k \in Kinds : Accept(s, k)
    \/ \E s \in Sessions : ReadError(s)
    \/ StrandJoin
    \/ StrandLeave
    \/ \E s \in Sessions : RunStop(s)
    \/ \E s \in Sessions : Deliver(s)
    \/ \E s \in Sessions : RunDeliver(s)
    \/ \E s \in Sessions, i \in 1..2, ok \in BOOLEAN : WriteDoneTcp(s, i, ok)
    \/ \E s \in Sessions, i \in 1..2, ok \in BOOLEAN : WriteDoneWs(s, i, ok)
    \/ \E s \in Sessions, i \in 1..2, ok \in BOOLEAN : WriteDoneWss(s, i, ok)

WriteCompletes(s) ==
    \E i \in 1..2, ok \in BOOLEAN :
        WriteDoneTcp(s, i, ok) \/ WriteDoneWs(s, i, ok) \/ WriteDoneWss(s, i, ok)

DrainRuns(s) == RunStop(s) \/ RunDeliver(s)

DrainSpec ==
    /\ Init /\ [][DrainNext]_vars
    /\ \A s \in Sessions : WF_vars(DrainRuns(s))
    /\ \A s \in Sessions : WF_vars(WriteCompletes(s))

\* ----------------------------------------------------------- drain claims
\* stop_session has run on s or its socket is closed.
SessionStopped(s) == stopCalls[s] > 0 \/ sstopped[s] \/ ~sock_open[s]

\* Frame m is in the write queue of s.
Queued(s, m) == \E i \in 1..Len(write_msgs_[s]) : write_msgs_[s][i] = m

\* Frame m has been written to the socket of s.
Written(s, m) == \E i \in 1..Len(wire[s]) : wire[s][i] = m

\* C39: for a session that is not stopped and whose writes have not failed,
\* a non-empty write queue always has a write in flight, and every frame
\* in the queue is eventually written to the socket (or the session stops
\* or a write fails first).
C39_QueueDrains ==
    /\ [](\A s \in Sessions :
             (kind[s] # "none" /\ ~SessionStopped(s) /\ ~wfailed[s]
                 /\ write_msgs_[s] # <<>>)
             => (writing[s] /\ inflight[s] # <<>>))
    /\ \A s \in Sessions : \A m \in 1..MaxMsgs :
           Queued(s, m) ~> (Written(s, m) \/ SessionStopped(s) \/ wfailed[s])

\* A session has written one frame to the socket while a later one waits
\* behind the write in flight.
C39_SecondFrameQueued ==
    \E s \in Sessions :
        /\ ~SessionStopped(s) /\ ~wfailed[s]
        /\ wire[s] # <<>>
        /\ Len(write_msgs_[s]) >= 2

====
